---- MODULE Spec2Model ----
(***************************************************************************)
(* Tenant-aware authentication core of the multi-tenant backend:           *)
(* token issuance and verification (core/security.py, auth/jwt_handler.py),*)
(* the auth service (services/auth_service.py), the login / refresh        *)
(* endpoints (api/v1/endpoints/auth.py) and tenant resolution              *)
(* (main.py tenant_middleware, db/database_router.py).                     *)
(***************************************************************************)
EXTENDS Integers, FiniteSets, Sequences, TLC

\* ------------------------------------------------------------------ bounds
MaxUsers  == 2      \* number of documents ever inserted in admin_users
MaxTicks  == 1      \* number of clock advances in one behaviour
MaxTokens == 2      \* number of distinct tokens kept available to callers

\* ------------------------------------------------------- program constants
ACCESS_TOKEN_EXPIRE_MINUTES     == 60 * 24 * 8
REFRESH_TOKEN_EXPIRE_DAYS       == 30
ORG_ACCESS_TOKEN_EXPIRE_MINUTES == 30
MinutesPerDay                   == 24 * 60

\* ------------------------------------------------------------ input values
None      == "None"                 \* Python None (for string-valued slots)
Tenants   == {"A", "B"}
Emails    == {"a@x.io"}
Passwords == {"pw-good", "pw-bad"}
AdminIds  == {[type |-> "str", v |-> 100]}   \* str(admin["_id"]) of an admins document
\* the clock is in minutes; it advances by one of these amounts
Steps     == {ACCESS_TOKEN_EXPIRE_MINUTES,
              REFRESH_TOKEN_EXPIRE_DAYS * MinutesPerDay}

\* --------------------------------------------------------- python helpers
\* Python truthiness of a string-or-None value: None and "" are falsy.
Truthy(x) == x /= None /\ x /= ""

\* bson.ObjectId generated by the store on insert, and str() of it.  The two
\* are different values: a filter {"_id": "<hex>"} never matches an ObjectId.
ObjectId(n) == [type |-> "ObjectId", v |-> n]
Str(id)     == [type |-> "str", v |-> id.v]

\* dict.get(key, default)
PGet(p, k, default) == IF k \in DOMAIN p THEN p[k] ELSE default

\* passlib bcrypt: the digest verifies exactly the password it was made from
\* (salt and cost are carried inside the digest).
get_password_hash(password) == [bcrypt |-> password]
verify_password(plain_password, hashed_password) ==
    hashed_password = get_password_hash(plain_password)

\* ------------------------------------------------------------- JWT (jose)
SECRET_KEY == "core.config.SECRET_KEY"
JWT_SECRET == "config.settings.JWT_SECRET"
ATTACKER_KEY == "unknown-secret"

\* jwt.encode(claims, key): the signed token.  A datetime "exp" is stored as
\* an integer instant.
jwt_encode(to_encode, key) == [key |-> key, payload |-> to_encode]

\* jwt.decode(token, key) raises JWTError when the signature does not verify
\* under key or when the "exp" claim lies before the current instant;
\* otherwise it returns the claims.
jwt_decode_ok(token, key, t) ==
    /\ token.key = key
    /\ ~(token.payload.exp < t)

\* core/security.py create_access_token; expires_delta = 0 is "not given"
create_access_token(subject, expires_delta, tenant_id, is_superadmin, t) ==
    LET expire == IF expires_delta /= 0
                  THEN t + expires_delta
                  ELSE t + ACCESS_TOKEN_EXPIRE_MINUTES
        to_encode == [exp |-> expire,
                      sub |-> Str(subject),
                      tenant_id |-> IF Truthy(tenant_id) THEN tenant_id ELSE None,
                      is_superadmin |-> is_superadmin,
                      scopes |-> <<>>]
    IN  jwt_encode(to_encode, SECRET_KEY)

\* core/security.py create_refresh_token
create_refresh_token(subject, expires_delta, tenant_id, is_superadmin, t) ==
    LET expire == IF expires_delta /= 0
                  THEN t + expires_delta
                  ELSE t + REFRESH_TOKEN_EXPIRE_DAYS * MinutesPerDay
        to_encode == [exp |-> expire,
                      sub |-> Str(subject),
                      tenant_id |-> IF Truthy(tenant_id) THEN tenant_id ELSE None,
                      is_superadmin |-> is_superadmin,
                      refresh |-> TRUE]
    IN  jwt_encode(to_encode, SECRET_KEY)

\* auth/jwt_handler.py generate_org_admin_token
generate_org_admin_token(admin_id, org_name, is_superadmin, t) ==
    LET expire == t + ORG_ACCESS_TOKEN_EXPIRE_MINUTES
        to_encode == [sub |-> admin_id,
                      org |-> org_name,
                      is_superadmin |-> is_superadmin,
                      exp |-> expire]
    IN  jwt_encode(to_encode, JWT_SECRET)

\* services/auth_service.py AuthService.create_tokens
create_tokens(user_id, is_superadmin, tenant_id, t) ==
    [access_token  |-> create_access_token(Str(user_id), 0, tenant_id, is_superadmin, t),
     refresh_token |-> create_refresh_token(Str(user_id), 0, tenant_id, is_superadmin, t),
     token_type    |-> "bearer"]

\* schemas/token.py Token: the fields a response body must carry
TokenRequiredFields == {"access_token", "expires_in", "refresh_token"}

\* FastAPI response_model=Token: a body without a required field cannot be
\* serialised and the request ends in 500.
ResponseModelStatus(body) ==
    IF TokenRequiredFields \subseteq DOMAIN body THEN 200 ELSE 500

\* tokens an attacker can build without the process secret
Forged ==
    { [key |-> ATTACKER_KEY,
       payload |-> [exp |-> 10 * REFRESH_TOKEN_EXPIRE_DAYS * MinutesPerDay,
                    sub |-> Str(ObjectId(1)),
                    tenant_id |-> "B",
                    is_superadmin |-> TRUE,
                    refresh |-> TRUE]] }

VARIABLES
    admin_users,   \* master_db["admin_users"]: set of documents
    next_oid,      \* number of ObjectIds the store has generated
    now,           \* wall clock, minutes
    ticks,         \* number of clock advances so far
    issued,        \* tokens created so far and available to callers
    resp,          \* the last operation: its request and its outcome
    streak,        \* history of the login attempts on the principal
    build,         \* which variant of a mismatched module the handlers run against
    users,         \* db.users of routes/auth_routes.py and routes/users.py
    organizations, \* master_db.organizations
    tenants,       \* master_db["tenants"]
    calls,         \* the handler calls in flight, one slot per caller
    namespaces,    \* names of the organization collections and tenant databases
                   \* that exist in the store, each with the documents put in it
    process,       \* module-level names of the running process that are
                   \* rebound or filled after import
    redis,         \* the keys of the Redis server, each with its value and expiry
    observed       \* what the callers have been answered so far, as far as a
                   \* property below reads it

\* state outside the token service, the auth service and tenant resolution
route == <<build, users, organizations, calls>>
\* state outside routes/ and the admin_users collection
\* state outside the document store
side == <<process, redis, observed>>
outer == <<tenants, namespaces, side>>
ext == <<streak, route, outer>>

vars == <<admin_users, next_oid, now, ticks, issued, resp, ext>>

\* ------------------------------------------------------------- responses
NoUser == [missing |-> TRUE]
IsNoUser(u) == "missing" \in DOMAIN u

Response(op, req, status, detail, tokens, db, user) ==
    [op |-> op, req |-> req, status |-> status, detail |-> detail,
     tokens |-> tokens, db |-> db, user |-> user]

\* concurrent callers of the handlers that await between store operations
Callers == {"c1", "c2"}
Idle == [pc |-> "idle"]

\* auth/password_handler.py declares get_password_hash and verify_password
\* with "async def"; routes/auth_routes.py and routes/users.py import them from
\* that module together with names the module does not define, and call them
\* without await.  Against the module as it is in the repository the call
\* yields a coroutine object; against a synchronous handler it yields the
\* result.  A behaviour runs against one of the two.
PasswordHandlers == {"async", "sync"}

\* services/tenant_service.py builds AdminUserCreate(email, password,
\* full_name, is_superadmin) and imports modules the repository does not
\* hold; models/user.py declares org_name as required in AdminUserCreate and
\* in AdminUserInDB, so those models refuse the call (ValidationError), and
\* models with the fields the service names accept it.
AdminUserModels == {"org_name", "full_name"}

\* the variants the files of the repository define
SrcVariants == {"async", "org_name"}
\* build holds the variants a behaviour runs against that are not those of
\* the repository; with the modules as they are in the repository it is empty
SrcBuild == {}
BuildOf(variants) ==
    [password_handler |-> IF "sync" \in variants THEN "sync" ELSE "async",
     models_user |-> IF "full_name" \in variants THEN "full_name" ELSE "org_name"]

\* No call is in flight: calls maps the callers suspended in an await to
\* their call, and an idle caller is not in its domain.
NoCalls == [c \in {} |-> Idle]

\* No login attempt has been made since the last successful one: the history
\* of the attempts is kept empty until an attempt changes it.
NoStreak == <<>>
ZeroStreak == [n |-> 0, at |-> 0, reset |-> FALSE, verified |-> FALSE, incs |-> 0]
Kept(history) == IF history = ZeroStreak THEN NoStreak ELSE history

InitStore ==
    /\ admin_users = {}
    /\ next_oid = 0
    /\ now = 0
    /\ ticks = 0
    /\ issued = {}
    /\ resp = Response("init", <<>>, 0, "", {}, None, NoUser)
    /\ streak = NoStreak
    /\ users = {}
    /\ organizations = {}
    /\ tenants = {}
    /\ calls = NoCalls
    /\ namespaces = {}
    /\ process = <<>>
    /\ redis = <<>>
    /\ observed = <<>>

Init ==
    /\ InitStore
    /\ build = SrcBuild

\* -------------------------------------------------------------- the store
\* collection.find_one({"email": email}) on admin_users
find_one_by_email(coll, email) ==
    IF \E d \in coll : d.email = email
    THEN CHOOSE d \in coll : d.email = email
    ELSE NoUser

\* collection.find_one({"_id": id}): the filter value is compared with the
\* stored _id as it is, type included
find_one_by_id(coll, id) ==
    IF \E d \in coll : d._id = id
    THEN CHOOSE d \in coll : d._id = id
    ELSE NoUser

\* ------------------------------------------------- AuthService.create_user
\* POST /auth/register -> AuthService.create_user
CreateUser(email, password, org_name, is_superadmin) ==
    LET req == <<email, password, org_name, is_superadmin>>
        existing_user == find_one_by_email(admin_users, email)
    IN  IF ~IsNoUser(existing_user)
        THEN /\ resp' = Response("create_user", req, 400,
                                 "User with this email already exists",
                                 {}, None, NoUser)
             /\ UNCHANGED <<admin_users, next_oid, now, ticks, issued>>
        ELSE /\ next_oid < MaxUsers
             /\ LET user_dict == [_id |-> ObjectId(next_oid + 1),
                                  email |-> email,
                                  org_name |-> org_name,
                                  is_superadmin |-> is_superadmin,
                                  hashed_password |-> get_password_hash(password),
                                  is_active |-> TRUE]
                IN  /\ admin_users' = admin_users \cup {user_dict}
                    /\ next_oid' = next_oid + 1
                    /\ resp' = Response("create_user", req, 201, "", {}, None, user_dict)
             /\ UNCHANGED <<now, ticks, issued>>

\* ----------------------------------------------- administration of the store
\* The principal's document is marked inactive (is_active: False), the soft
\* delete of routes/users.py delete_user applied to the principal's document.
DeactivateUser(u) ==
    /\ u \in admin_users
    /\ u.is_active
    /\ admin_users' = (admin_users \ {u}) \cup {[u EXCEPT !.is_active = FALSE]}
    /\ resp' = Response("deactivate", <<u._id>>, 204, "", {}, None, NoUser)
    /\ UNCHANGED <<next_oid, now, ticks, issued>>

\* The principal's document is removed (test_auth_flow.py clean-up:
\* db["admin_users"].delete_one({"email": ...})).
DeleteUser(email) ==
    /\ \E d \in admin_users : d.email = email
    /\ admin_users' = admin_users \ {find_one_by_email(admin_users, email)}
    /\ resp' = Response("delete", <<email>>, 204, "", {}, None, NoUser)
    /\ UNCHANGED <<next_oid, now, ticks, issued>>

\* -------------------------------------------------------- token issuance
\* the tokens of a create_tokens result
Pair(tokens) == {tokens.access_token, tokens.refresh_token}

\* a caller can keep at most MaxTokens distinct tokens at hand
Room(new) == Cardinality(issued \cup new) <= MaxTokens

\* AuthService.authenticate_user
authenticate_user(email, password) ==
    LET user == find_one_by_email(admin_users, email)
    IN  IF IsNoUser(user) THEN NoUser
        ELSE IF ~verify_password(password, user.hashed_password) THEN NoUser
        ELSE user

\* POST /auth/login: api/v1/endpoints/auth.py login_for_access_token
Login(username, password) ==
    LET req == <<username, password>>
        user == authenticate_user(username, password)
    IN  IF IsNoUser(user)
        THEN /\ resp' = Response("login", req, 401, "Incorrect email or password",
                                 {}, None, NoUser)
             /\ UNCHANGED <<admin_users, next_oid, now, ticks, issued>>
        ELSE LET tokens == create_tokens(Str(user._id), user.is_superadmin, None, now)
                 body == [access_token |-> tokens.access_token,
                          token_type |-> "bearer",
                          refresh_token |-> tokens.refresh_token]
             IN  /\ Room(Pair(tokens))
                 /\ issued' = issued \cup Pair(tokens)
                 /\ resp' = Response("login", req, ResponseModelStatus(body), "",
                                     Pair(tokens), None, user)
                 /\ UNCHANGED <<admin_users, next_oid, now, ticks>>

\* a direct call of AuthService.create_tokens for a stored principal, with
\* the tenant id the caller chooses (test_auth_flow.py calls it this way)
CreateTokens(u, tenant_id) ==
    LET tokens == create_tokens(Str(u._id), u.is_superadmin, tenant_id, now)
    IN  /\ u \in admin_users
        /\ Room(Pair(tokens))
        /\ issued' = issued \cup Pair(tokens)
        /\ resp' = Response("create_tokens", <<u._id, tenant_id>>, 200, "",
                            Pair(tokens), None, u)
        /\ UNCHANGED <<admin_users, next_oid, now, ticks>>

\* routes/admin_routes.py login_for_access_token -> generate_org_admin_token
GenerateOrgAdminToken(admin_id, org_name, is_superadmin) ==
    LET token == generate_org_admin_token(admin_id, org_name, is_superadmin, now)
    IN  /\ Room({token})
        /\ issued' = issued \cup {token}
        /\ resp' = Response("org_admin_token", <<admin_id, org_name, is_superadmin>>,
                            200, "", {token}, None, NoUser)
        /\ UNCHANGED <<admin_users, next_oid, now, ticks>>

\* ------------------------------------------------------ token verification
NoSub == [type |-> "NoneType", v |-> 0]      \* payload.get("sub") -> None

\* outcome of a verification: accepted or an HTTPException
NoResult == [token_type |-> "none"]
Accept(result, user) == [ok |-> TRUE, status |-> 200, detail |-> "",
                         result |-> result, user |-> user]
Reject(status, detail) == [ok |-> FALSE, status |-> status, detail |-> detail,
                           result |-> NoResult, user |-> NoUser]

\* refresh_tokens without the check of the refresh marker
refresh_tokens_no_kind_check(refresh_token, coll, t) ==
    IF ~jwt_decode_ok(refresh_token, SECRET_KEY, t)
    THEN Reject(401, "Could not validate credentials")
    ELSE LET payload == refresh_token.payload
             user_id == PGet(payload, "sub", NoSub)
             tenant_id == PGet(payload, "tenant_id", None)
             is_superadmin == PGet(payload, "is_superadmin", FALSE)
             user == find_one_by_id(coll, user_id)
         IN  IF user_id = NoSub
             THEN Reject(401, "Invalid token")
             ELSE IF IsNoUser(user) \/ ~PGet(user, "is_active", TRUE)
             THEN Reject(401, "User not found or inactive")
             ELSE Accept(create_tokens(user_id, is_superadmin, tenant_id, t), user)

\* refresh_tokens without the look-up of the principal
refresh_tokens_no_principal_check(refresh_token, coll, t) ==
    IF ~jwt_decode_ok(refresh_token, SECRET_KEY, t)
    THEN Reject(401, "Could not validate credentials")
    ELSE LET payload == refresh_token.payload
             user_id == PGet(payload, "sub", NoSub)
             tenant_id == PGet(payload, "tenant_id", None)
             is_superadmin == PGet(payload, "is_superadmin", FALSE)
         IN  IF PGet(payload, "refresh", FALSE) /= TRUE
             THEN Reject(401, "Invalid token type")
             ELSE IF user_id = NoSub
             THEN Reject(401, "Invalid token")
             ELSE Accept(create_tokens(user_id, is_superadmin, tenant_id, t), NoUser)

\* services/auth_service.py AuthService.refresh_tokens
refresh_tokens(refresh_token, coll, t) ==
    IF ~jwt_decode_ok(refresh_token, SECRET_KEY, t)
    THEN Reject(401, "Could not validate credentials")
    ELSE LET payload == refresh_token.payload
             user_id == PGet(payload, "sub", NoSub)
             tenant_id == PGet(payload, "tenant_id", None)
             is_superadmin == PGet(payload, "is_superadmin", FALSE)
             user == find_one_by_id(coll, user_id)
         IN  IF PGet(payload, "refresh", FALSE) /= TRUE
             THEN Reject(401, "Invalid token type")
             ELSE IF user_id = NoSub
             THEN Reject(401, "Invalid token")
             ELSE IF IsNoUser(user) \/ ~PGet(user, "is_active", TRUE)
             THEN Reject(401, "User not found or inactive")
             ELSE Accept(create_tokens(user_id, is_superadmin, tenant_id, t), user)

\* POST /auth/refresh-token: api/v1/endpoints/auth.py refresh_access_token
RefreshTokens(token) ==
    LET r == refresh_tokens(token, admin_users, now)
        tokens == r.result
        body == [access_token |-> tokens.access_token,
                 token_type |-> "bearer",
                 refresh_token |-> tokens.refresh_token]
    IN  IF r.ok
        THEN /\ Room(Pair(tokens))
             /\ issued' = issued \cup Pair(tokens)
             /\ resp' = Response("refresh", <<token>>, ResponseModelStatus(body),
                                 "", Pair(tokens), None, r.user)
             /\ UNCHANGED <<admin_users, next_oid, now, ticks>>
        ELSE /\ resp' = Response("refresh", <<token>>, r.status, r.detail,
                                 {}, None, NoUser)
             /\ UNCHANGED <<admin_users, next_oid, now, ticks, issued>>

\* POST /auth/refresh of routes/auth_routes.py refresh_token: verify_token is
\* bound nowhere (neither defined in the module nor imported), the call
\* raises NameError and the handler's `except Exception` answers 401.
RouteRefresh(token) ==
    /\ resp' = Response("route_refresh", <<token>>, 401,
                        "Could not validate credentials", {}, None, NoUser)
    /\ UNCHANGED <<admin_users, next_oid, now, ticks, issued>>

\* core/security.py get_current_user
get_current_user(token, t) ==
    IF ~jwt_decode_ok(token, SECRET_KEY, t)
    THEN Reject(403, "Could not validate credentials")
    ELSE LET payload == token.payload
             user_id == PGet(payload, "sub", NoSub)
         IN  IF user_id = NoSub
             THEN Reject(403, "Could not validate credentials")
             ELSE Accept(NoResult, [_id |-> user_id,
                              email |-> "user@example.com",
                              hashed_password |-> "",
                              org_name |-> "",
                              is_superadmin |-> PGet(payload, "is_superadmin", FALSE),
                              is_active |-> TRUE])

GetCurrentUser(token) ==
    LET r == get_current_user(token, now)
    IN  /\ resp' = Response("get_current_user", <<token>>, r.status, r.detail,
                            {}, None, r.user)
        /\ UNCHANGED <<admin_users, next_oid, now, ticks, issued>>

\* auth/jwt_handler.py get_current_org_admin
get_current_org_admin(token, t) ==
    IF ~jwt_decode_ok(token, JWT_SECRET, t)
    THEN Reject(401, "Could not validate credentials")
    ELSE LET payload == token.payload
             admin_id == PGet(payload, "sub", NoSub)
             org_name == PGet(payload, "org", None)
         IN  IF admin_id = NoSub \/ org_name = None
             THEN Reject(401, "Could not validate credentials")
             ELSE Accept(NoResult, [admin_id |-> admin_id,
                              organization |-> org_name,
                              is_superadmin |-> PGet(payload, "is_superadmin", FALSE)])

GetCurrentOrgAdmin(token) ==
    LET r == get_current_org_admin(token, now)
    IN  /\ resp' = Response("get_current_org_admin", <<token>>, r.status, r.detail,
                            {}, None, r.user)
        /\ UNCHANGED <<admin_users, next_oid, now, ticks, issued>>

\* ------------------------------------------------------- tenant resolution
API_V1_STR == <<"api", "v1">>                 \* "/api/v1", as path segments
StartsWith(path, prefix) ==
    /\ Len(path) >= Len(prefix)
    /\ SubSeq(path, 1, Len(prefix)) = prefix

\* main.py: every router is mounted under the prefix "/org"
Routed(url_path) == StartsWith(url_path, <<"org">>)

MasterDb == "master_db"
TenantDb(tenant_id) == "tenant_" \o tenant_id       \* f"tenant_{tenant_id}"
NoDb == None

\* main.py tenant_middleware: the request.state it leaves for the handler
tenant_middleware(request, t) ==
    IF StartsWith(request.url_path, API_V1_STR \o <<"auth">>)
    THEN [skipped |-> TRUE]
    ELSE IF /\ "Authorization" \in DOMAIN request.headers
            /\ request.headers["Authorization"].scheme = "Bearer"
    THEN LET token == request.headers["Authorization"].token
         IN  IF jwt_decode_ok(token, SECRET_KEY, t)
             THEN IF "tenant_id" \in DOMAIN token.payload
                  THEN [tenant_id |-> token.payload.tenant_id]
                  ELSE [decoded |-> TRUE]
             ELSE [decoded |-> FALSE]
    ELSE [decoded |-> FALSE]

\* get_current_db looking at the header before the path
current_tenant_id_header_first(state, request) ==
    LET tenant_id == IF "tenant_id" \in DOMAIN state THEN state.tenant_id ELSE None
    IN  IF ~Truthy(tenant_id)
        THEN IF "X-Tenant-ID" \in DOMAIN request.headers
             THEN request.headers["X-Tenant-ID"]
             ELSE IF "tenant_id" \in DOMAIN request.path_params
             THEN request.path_params["tenant_id"]
             ELSE tenant_id
        ELSE tenant_id

\* db/database_router.py DatabaseRouter.get_current_db: the tenant id it
\* settles on (None: the master database)
current_tenant_id(state, request) ==
    LET tenant_id == IF "tenant_id" \in DOMAIN state THEN state.tenant_id ELSE None
    IN  IF ~Truthy(tenant_id)
        THEN IF "tenant_id" \in DOMAIN request.path_params
             THEN request.path_params["tenant_id"]
             ELSE IF "X-Tenant-ID" \in DOMAIN request.headers
             THEN request.headers["X-Tenant-ID"]
             ELSE tenant_id
        ELSE tenant_id

get_current_db(state, request) ==
    LET tenant_id == current_tenant_id(state, request)
    IN  IF ~Truthy(tenant_id) THEN MasterDb ELSE TenantDb(tenant_id)

\* the requests of the model
NoAuth == [scheme |-> "", token |-> [key |-> "", payload |-> [exp |-> 0]]]
AuthHeaders ==
    {NoAuth} \cup {[scheme |-> "Bearer", token |-> tk] : tk \in issued \cup Forged}
             \cup {[scheme |-> "Basic", token |-> tk] : tk \in Forged}
MkRequest(url_path, auth, path_tenant, header_tenant) ==
    [url_path |-> url_path,
     path_params |-> [k \in (IF path_tenant = None THEN {} ELSE {"tenant_id"})
                        |-> path_tenant],
     headers |-> [k \in (IF auth = NoAuth THEN {} ELSE {"Authorization"})
                        \cup (IF header_tenant = None THEN {} ELSE {"X-Tenant-ID"})
                        |-> IF k = "Authorization" THEN auth ELSE header_tenant]]

\* one HTTP request to a handler that depends on get_db: tenant_middleware,
\* then routing, then get_db -> DatabaseRouter.get_current_db
Request(request) ==
    LET state == tenant_middleware(request, now)
    IN  IF ~Routed(request.url_path)
        THEN /\ resp' = Response("request", request, 404, "Not Found", {}, NoDb, NoUser)
             /\ UNCHANGED <<admin_users, next_oid, now, ticks, issued>>
        ELSE /\ resp' = Response("request", request, 200, "", {},
                                 get_current_db(state, request), NoUser)
             /\ UNCHANGED <<admin_users, next_oid, now, ticks, issued>>

\* ----------------------------------------------------------------- clock
Tick(d) ==
    /\ ticks < MaxTicks
    /\ now' = now + d
    /\ ticks' = ticks + 1
    /\ resp' = Response("tick", <<d>>, 0, "", {}, None, NoUser)
    /\ UNCHANGED <<admin_users, next_oid, issued>>

Presentable == issued \cup Forged

\* inputs shared by the two specifications
SetUp ==
    \/ \E e \in Emails, o \in Tenants, sa \in BOOLEAN :
          CreateUser(e, "pw-good", o, sa)
    \/ \E e \in Emails, pw \in Passwords : Login(e, pw)
    \/ \E u \in admin_users, tn \in Tenants \cup {None} : CreateTokens(u, tn)
    \/ \E d \in Steps : Tick(d)

\* the token service and the auth service
Next ==
    \/ SetUp /\ UNCHANGED ext
    \/ \E u \in admin_users : DeactivateUser(u) /\ UNCHANGED ext
    \/ \E e \in Emails : DeleteUser(e) /\ UNCHANGED ext
    \/ \E a \in AdminIds : GenerateOrgAdminToken(a, "A", FALSE) /\ UNCHANGED ext
    \/ \E tk \in Presentable : RefreshTokens(tk) /\ UNCHANGED ext
    \/ \E tk \in Presentable : RouteRefresh(tk) /\ UNCHANGED ext
    \/ \E tk \in Presentable : GetCurrentUser(tk) /\ UNCHANGED ext
    \/ \E tk \in Presentable : GetCurrentOrgAdmin(tk) /\ UNCHANGED ext

Spec == Init /\ [][Next]_vars

\* tenant resolution of requests
NextTenant ==
    \/ SetUp /\ UNCHANGED ext
    \/ \E a \in AuthHeaders, pt \in Tenants \cup {None}, ht \in Tenants \cup {None, ""} :
          Request(MkRequest(<<"org", "tenant", "resource">>, a, pt, ht)) /\ UNCHANGED ext
    \/ \E a \in AuthHeaders :
          Request(MkRequest(<<"api", "v1", "auth", "login">>, a, None, "B")) /\ UNCHANGED ext

SpecTenant == Init /\ [][NextTenant]_vars

\* ===================================================== tenant resolution
\* the last operation resolved a database for a routed request
Resolved == resp.op = "request" /\ resp.status = 200

\* the bearer token of the last request, when it has one
HasBearer(request) ==
    /\ "Authorization" \in DOMAIN request.headers
    /\ request.headers["Authorization"].scheme = "Bearer"
BearerOf(request) == request.headers["Authorization"].token

\* the request carries a bearer token that passes validation now
HasValidToken(request) ==
    /\ HasBearer(request)
    /\ BearerOf(request).key = SECRET_KEY
    /\ BearerOf(request).payload.exp >= now

\* tenant ids the request offers
TokenTenant(request) ==
    IF HasValidToken(request)
    THEN PGet(BearerOf(request).payload, "tenant_id", None)
    ELSE None
PathTenant(request) == PGet(request.path_params, "tenant_id", None)
HeaderTenant(request) == PGet(request.headers, "X-Tenant-ID", None)

\* the stored principal a token was issued to
PrincipalOf(token) == find_one_by_id({[d EXCEPT !._id = Str(d._id)] : d \in admin_users},
                                     PGet(token.payload, "sub", NoSub))

\* C1: a request made with a token issued to a stored non-superadmin
\* principal of tenant A (the token names tenant A or no tenant) never gets
\* the database of another tenant B, whatever the path or the header says.
C1_TenantIsolation ==
    (/\ Resolved
     /\ HasBearer(resp.req)
     /\ BearerOf(resp.req).key = SECRET_KEY
     /\ ~IsNoUser(PrincipalOf(BearerOf(resp.req)))
     /\ ~PrincipalOf(BearerOf(resp.req)).is_superadmin
     /\ BearerOf(resp.req).payload.tenant_id
            \in {None, PrincipalOf(BearerOf(resp.req)).org_name})
    => \A B \in Tenants :
          B /= PrincipalOf(BearerOf(resp.req)).org_name => resp.db /= TenantDb(B)

\* C2: a validated token of tenant A with a path tenant B /= A fails closed:
\* no database is returned.
C2_MismatchFailsClosed ==
    (/\ resp.op = "request"
     /\ Routed(resp.req.url_path)
     /\ HasValidToken(resp.req)
     /\ Truthy(TokenTenant(resp.req))
     /\ PathTenant(resp.req) /= None
     /\ PathTenant(resp.req) /= TokenTenant(resp.req))
    => (resp.status /= 200 /\ resp.db = NoDb)

\* the tenant id the precedence rule selects: validated token, else path,
\* else header
PrecedenceTenant(request) ==
    IF Truthy(TokenTenant(request)) THEN TokenTenant(request)
    ELSE IF PathTenant(request) /= None THEN PathTenant(request)
    ELSE HeaderTenant(request)

\* C3: the resolved database is the one of the first tenant id found in the
\* order validated token, path, header; a token that fails validation
\* contributes nothing; no tenant id gives the master database.
C3_Precedence ==
    Resolved =>
        resp.db = IF Truthy(PrecedenceTenant(resp.req))
                  THEN TenantDb(PrecedenceTenant(resp.req))
                  ELSE MasterDb

\* C3 witness: a token that fails validation names tenant B, the path names
\* A and the header B: the path wins.
C3_Witness ==
    /\ Resolved
    /\ HasBearer(resp.req)
    /\ ~HasValidToken(resp.req)
    /\ BearerOf(resp.req).payload.tenant_id = "B"
    /\ PathTenant(resp.req) = "A"
    /\ HeaderTenant(resp.req) = "B"
    /\ resp.db = TenantDb("A")

\* the caller of the last request is a superadmin by its validated token
CallerIsSuperadmin(request) ==
    /\ HasValidToken(request)
    /\ PGet(BearerOf(request).payload, "is_superadmin", FALSE)

\* C4: with no tenant id in token, path or header, a caller who is not a
\* superadmin is refused; only a superadmin gets the master database.
C4_TenantRequired ==
    (/\ resp.op = "request"
     /\ Routed(resp.req.url_path)
     /\ ~Truthy(PrecedenceTenant(resp.req))
     /\ ~CallerIsSuperadmin(resp.req))
    => (resp.status /= 200 /\ resp.db /= MasterDb)

\* ========================================================= token service
\* the token presented to the last verification
VerifyOps == {"refresh", "route_refresh", "get_current_user", "get_current_org_admin"}
Presented == resp.req[1]

\* produced by create_refresh_token / create_access_token: signed with the
\* process secret, with / without the refresh marker
IsRefreshToken(token) ==
    token.key = SECRET_KEY /\ PGet(token.payload, "refresh", FALSE) = TRUE
IsAccessToken(token) ==
    token.key = SECRET_KEY /\ "scopes" \in DOMAIN token.payload
Unexpired(token) == token.payload.exp >= now

\* the principal the token was issued to is stored and active
PrincipalActive(token) ==
    /\ ~IsNoUser(PrincipalOf(token))
    /\ PrincipalOf(token).is_active

\* C5: get_current_user rejects every token produced by
\* create_refresh_token.
C5_RefreshNotAccess ==
    (resp.op = "get_current_user" /\ IsRefreshToken(Presented))
    => resp.status /= 200

\* C6: refresh_tokens given a validly signed, unexpired access token fails
\* as a token of the wrong kind and issues no tokens.
C6_AccessNotRefresh ==
    (resp.op = "refresh" /\ IsAccessToken(Presented) /\ Unexpired(Presented))
    => /\ resp.status = 401
       /\ resp.detail = "Invalid token type"
       /\ resp.tokens = {}

\* C6 witness: the access token of an active principal, unexpired, was
\* presented to the refresh flow and refused.
C6_Witness ==
    /\ resp.op = "refresh"
    /\ IsAccessToken(Presented)
    /\ Unexpired(Presented)
    /\ PrincipalActive(Presented)
    /\ resp.status = 401

\* C7: a refresh with the refresh token of a principal that is deleted or
\* deactivated is rejected and issues no tokens, also while the token's
\* signature and expiry are valid.
C7_InactiveRefused ==
    (/\ resp.op \in {"refresh", "route_refresh"}
     /\ IsRefreshToken(Presented)
     /\ ~PrincipalActive(Presented))
    => (resp.status = 401 /\ resp.tokens = {})

\* C7 witness: an unexpired refresh token of a deactivated principal was
\* presented to refresh_tokens and refused.
C7_Witness ==
    /\ resp.op = "refresh"
    /\ IsRefreshToken(Presented)
    /\ Unexpired(Presented)
    /\ ~IsNoUser(PrincipalOf(Presented))
    /\ ~PrincipalOf(Presented).is_active
    /\ resp.status = 401

\* C8: for a stored, active principal, refresh_tokens with the unexpired
\* refresh token of create_tokens returns a new access token with the same
\* subject, tenant id and superadmin flag.
C8_RefreshSucceeds ==
    (/\ resp.op = "refresh"
     /\ IsRefreshToken(Presented)
     /\ Unexpired(Presented)
     /\ PrincipalActive(Presented))
    => \E a \in resp.tokens :
          /\ IsAccessToken(a)
          /\ a.payload.sub = Presented.payload.sub
          /\ a.payload.tenant_id = Presented.payload.tenant_id
          /\ a.payload.is_superadmin = Presented.payload.is_superadmin

\* C9: the tokens login issues to a non-superadmin principal carry the
\* principal's tenant/organization as a non-null tenant id.
C9_LoginTenantClaim ==
    (resp.op = "login" /\ resp.tokens /= {} /\ ~resp.user.is_superadmin)
    => \A tk \in resp.tokens :
          /\ tk.payload.tenant_id /= None
          /\ tk.payload.tenant_id = resp.user.org_name

\* the last verification accepted the token
Accepted ==
    IF resp.op = "refresh" THEN resp.tokens /= {} ELSE resp.status = 200

\* C10, first half: a token presented after its expiry instant is rejected
\* by every verification path.
C10_ExpiredRejected ==
    (resp.op \in VerifyOps /\ Presented.payload.exp < now) => ~Accepted

\* C10, second half: before its expiry instant a correctly signed token of
\* the right kind is accepted by every verification path (refresh_tokens:
\* the refresh token of a stored, active principal).
C10_UnexpiredAccepted ==
    /\ (resp.op = "get_current_user" /\ IsAccessToken(Presented)
            /\ Presented.payload.exp > now) => Accepted
    /\ (resp.op = "get_current_org_admin" /\ Presented.key = JWT_SECRET
            /\ Presented.payload.exp > now) => Accepted
    /\ (resp.op = "refresh" /\ IsRefreshToken(Presented)
            /\ PrincipalActive(Presented)
            /\ Presented.payload.exp > now) => Accepted

\* C10: the expiry boundary on every verification path.
C10_ExpiryBoundary == C10_ExpiredRejected /\ C10_UnexpiredAccepted

\* ================================================================ lockout
\* routes/auth_routes.py login_for_access_token: "Lock account after 5 failed
\* attempts for 15 minutes"
LOCK_AFTER_ATTEMPTS == 5
LOCK_MINUTES        == 15
LockedDetail == "Account temporarily locked due to too many failed login attempts"

\* the clock advances inside or up to the end of the lock window
LockSteps == {LOCK_MINUTES - 1, LOCK_MINUTES}

\* the login operations
LoginOps == {"login", "route_login"}

\* History of the login attempts on the principal.  A rejected attempt on an
\* existing principal lengthens the run of failures (counted up to
\* LOCK_AFTER_ATTEMPTS); an attempt that authenticates ends the run, and the
\* run is kept until the next rejected attempt so that the outcome of the
\* authenticating attempt can be read against it.
\* verified tells whether the attempt called verify_password.
Streak == IF DOMAIN streak = {} THEN ZeroStreak ELSE streak
StreakAfter(existing, rejected, authenticated, verified) ==
    IF ~existing THEN [Streak EXCEPT !.verified = verified]
    ELSE IF rejected
    THEN LET n == IF Streak.reset THEN 0 ELSE Streak.n
         IN  [Streak EXCEPT !.n = IF n < LOCK_AFTER_ATTEMPTS THEN n + 1 ELSE n,
                            !.at = now, !.reset = FALSE, !.verified = verified]
    ELSE IF authenticated
    THEN [Streak EXCEPT !.reset = TRUE, !.verified = verified]
    ELSE [Streak EXCEPT !.verified = verified]

\* POST /auth/login (api/v1/endpoints/auth.py), with the history kept
ApiLogin(username, password) ==
    LET existing == ~IsNoUser(find_one_by_email(admin_users, username))
        authenticated == ~IsNoUser(authenticate_user(username, password))
    IN  /\ Login(username, password)
        /\ streak' = Kept(StreakAfter(existing, ~authenticated, authenticated, existing))
        /\ UNCHANGED route

\* pydantic EmailStr of AdminUserCreate.email: the domain is lower-cased, the
\* local part is kept as it was sent
EmailStr(value) == IF value = "a@X.io" THEN "a@x.io" ELSE value

\* emails the callers of POST /auth/register send
RegistrationEmails == {"a@x.io", "A@x.io", "a@X.io"}

\* registrations and login attempts on admin_users over time
NextAccounts ==
    \/ \E e \in RegistrationEmails :
          CreateUser(EmailStr(e), "pw-good", "A", FALSE) /\ UNCHANGED ext
    \/ \E e \in Emails, pw \in Passwords : ApiLogin(e, pw) /\ UNCHANGED outer
    \/ \E d \in LockSteps : Tick(d) /\ UNCHANGED ext

SpecAccounts == Init /\ [][NextAccounts]_vars

\* ======================================= routes/auth_routes.py, routes/users.py
MaxAttempts == 6    \* failed attempts accepted on a document before a reset

\* str.lower() on the strings the callers send
Lower(str) ==
    IF str = "A@x.io" THEN "a@x.io"
    ELSE IF str = "Acme" THEN "acme"
    ELSE IF str = "Acme Inc" THEN "acme inc"
    ELSE str

\* str.replace(' ', '_') on the strings the callers send
ReplaceSpaces(str) == IF str = "acme inc" THEN "acme_inc" ELSE str

\* the outcome of calling a function: a value, an exception, or, for an
\* "async def" called without await, a coroutine object
Returned(value) == [kind |-> "value", value |-> value]
Raised(exception) == [kind |-> "raise", value |-> exception]
CoroutineObject == [kind |-> "coroutine", value |-> "never awaited"]

\* the digest slot of a document without "password_hash":
\* user.get("password_hash", "")
EmptyHash == [bcrypt |-> ""]

\* auth/password_handler.py verify_password, as the routes call it.  passlib
\* raises UnknownHashError on a string that is no digest.
password_handler_verify_password(plain_password, hashed_password) ==
    IF BuildOf(build).password_handler = "async" THEN CoroutineObject
    ELSE IF hashed_password = EmptyHash THEN Raised("UnknownHashError")
    ELSE IF verify_password(plain_password, hashed_password) THEN Returned("True")
    ELSE Returned("False")

\* auth/password_handler.py get_password_hash, as the routes call it
password_handler_get_password_hash(password) ==
    IF BuildOf(build).password_handler = "async" THEN CoroutineObject
    ELSE Returned(get_password_hash(password))

\* Python "not x" on an outcome that is a value or a coroutine object: every
\* object without __bool__ or __len__, a coroutine included, is truthy
PyNot(outcome) == outcome.kind = "value" /\ outcome.value = "False"

\* ---------------------------------------------------------- db.users
NoLock == -1        \* account_locked_until absent or None

\* A document of db.users.  login_attempts and account_locked_until are kept
\* in every document: the handlers read them with get(..., 0) and get(...),
\* and $inc creates a missing counter at 1.
UserDoc(id, email, password_hash) ==
    [_id |-> id, email |-> email, password_hash |-> password_hash,
     is_active |-> TRUE, login_attempts |-> 0, account_locked_until |-> NoLock]

\* find_one returns the first match in natural (insertion) order
first_by_email(coll, email) ==
    IF \E d \in coll : d.email = email
    THEN CHOOSE d \in coll : d.email = email
                              /\ \A e \in coll : e.email = email => d._id.v <= e._id.v
    ELSE NoUser

\* update_one({"_id": ...}, {"$inc": {"login_attempts": 1}}): the store
\* applies the increment to the document as it is now, without the counter
\* set by a read-then-write of the document the handler holds
inc_login_attempts_read_then_write(coll, user) ==
    {IF d._id = user._id
     THEN [d EXCEPT !.login_attempts = user.login_attempts + 1]
     ELSE d : d \in coll}

\* update_one({"_id": user["_id"]}, {"$inc": {"login_attempts": 1}}): the
\* store applies the increment to the document as it is now
inc_login_attempts(coll, user) ==
    {IF d._id = user._id
     THEN [d EXCEPT !.login_attempts = d.login_attempts + 1]
     ELSE d : d \in coll}

\* update_one({"_id": ...}, {"$set": {"account_locked_until": lock_until}})
set_account_locked_until(coll, user, lock_until) ==
    {IF d._id = user._id
     THEN [d EXCEPT !.account_locked_until = lock_until]
     ELSE d : d \in coll}

\* update_one({"_id": ...}, {"$set": {"last_login": ..., "login_attempts": 0,
\* "account_locked_until": None}})
reset_login_attempts(coll, user) ==
    {IF d._id = user._id
     THEN [d EXCEPT !.login_attempts = 0, !.account_locked_until = NoLock]
     ELSE d : d \in coll}

\* user.get("account_locked_until") and user["account_locked_until"] > utcnow()
Locked(user, t) ==
    user.account_locked_until /= NoLock /\ user.account_locked_until > t

\* ------------------------------------------ tokens of the /auth/token route
\* create_access_token(data, expires_delta) and create_refresh_token(user_id,
\* expires_delta) are imported from auth.jwt_handler, which does not define
\* them: an access token and a refresh token for the subject, each with its
\* kind marker and its expiry.
ROUTE_ACCESS_TOKEN_MINUTES == 30
ROUTE_REFRESH_TOKEN_DAYS   == 7
route_create_access_token(sub, t) ==
    jwt_encode([sub |-> sub, exp |-> t + ROUTE_ACCESS_TOKEN_MINUTES,
                type |-> "access"], JWT_SECRET)
route_create_refresh_token(user_id, t) ==
    jwt_encode([sub |-> user_id, exp |-> t + ROUTE_REFRESH_TOKEN_DAYS * MinutesPerDay,
                type |-> "refresh"], JWT_SECRET)

\* ------------------------------------------------- calls in flight
Call(pc, req, user) == [pc |-> pc, req |-> req, user |-> user]
CallOf(c) == IF c \in DOMAIN calls THEN calls[c] ELSE Idle
Suspend(c, pc, req, user) ==
    calls' = [d \in DOMAIN calls \cup {c} |->
                IF d = c THEN Call(pc, req, user) ELSE calls[d]]
Return(c) == calls' = [d \in DOMAIN calls \ {c} |-> calls[d]]
\* the handler of caller c is suspended in an await; no response yet
Awaiting(c) == Response("await", <<c>>, 0, "", {}, None, NoUser)

\* ----------------------------------------------- POST /auth/token
RouteLoginResponse(req, status, detail, tokens, user) ==
    Response("route_login", req, status, detail, tokens, None, user)

\* lines 80-83 and 105-116: find the user, evaluate the condition of the
\* failure branch, then the lock and the active flag of the document read
RouteLoginBegin(c, username, password) ==
    LET req == <<username, password>>
        user == first_by_email(users, Lower(username))
        outcome == password_handler_verify_password(
                       password, PGet(user, "password_hash", EmptyHash))
    IN  /\ CallOf(c) = Idle
        /\ UNCHANGED <<admin_users, next_oid, now, ticks, issued, build,
                       users, organizations>>
        /\ IF IsNoUser(user)
           THEN /\ resp' = RouteLoginResponse(req, 401, "Incorrect email or password",
                                              {}, NoUser)
                /\ streak' = Kept(StreakAfter(FALSE, TRUE, FALSE, FALSE))
                /\ UNCHANGED calls
           ELSE /\ user.login_attempts < MaxAttempts
                /\ IF outcome.kind = "raise"
                   THEN /\ resp' = RouteLoginResponse(req, 500, "Internal Server Error",
                                                      {}, user)
                        /\ streak' = Kept(StreakAfter(TRUE, FALSE, FALSE, TRUE))
                        /\ UNCHANGED calls
                   ELSE IF PyNot(outcome)
                   THEN /\ Suspend(c, "inc", req, user)
                        /\ resp' = Awaiting(c)
                        /\ UNCHANGED streak
                   ELSE IF Locked(user, now)
                   THEN /\ resp' = RouteLoginResponse(req, 403, LockedDetail, {}, user)
                        /\ streak' = Kept(StreakAfter(TRUE, FALSE, FALSE, TRUE))
                        /\ UNCHANGED calls
                   ELSE IF ~PGet(user, "is_active", TRUE)
                   THEN /\ resp' = RouteLoginResponse(req, 400, "Inactive user", {}, user)
                        /\ streak' = Kept(StreakAfter(TRUE, FALSE, FALSE, TRUE))
                        /\ UNCHANGED calls
                   ELSE /\ Suspend(c, "reset", req, user)
                        /\ resp' = Awaiting(c)
                        /\ UNCHANGED streak

\* the 401 that ends the failure branch (lines 99-103)
RouteLoginFail(c) ==
    /\ resp' = RouteLoginResponse(CallOf(c).req, 401, "Incorrect email or password",
                                  {}, CallOf(c).user)
    /\ Return(c)

\* lines 86-92: the increment, then the decision to lock, taken on the
\* counter of the document read at line 81
RouteLoginInc(c) ==
    /\ CallOf(c).pc = "inc"
    /\ users' = inc_login_attempts(users, CallOf(c).user)
    /\ UNCHANGED <<admin_users, next_oid, now, ticks, issued, build, organizations>>
    /\ IF CallOf(c).user.login_attempts >= LOCK_AFTER_ATTEMPTS - 1
       THEN /\ Suspend(c, "lock", CallOf(c).req, CallOf(c).user)
            /\ resp' = Awaiting(c)
            /\ streak' = Kept([Streak EXCEPT !.incs = @ + 1])
       ELSE /\ RouteLoginFail(c)
            /\ streak' = Kept([StreakAfter(TRUE, TRUE, FALSE, TRUE)
                                  EXCEPT !.incs = Streak.incs + 1])

\* lines 93-97: the lock
RouteLoginLock(c) ==
    /\ CallOf(c).pc = "lock"
    /\ users' = set_account_locked_until(users, CallOf(c).user, now + LOCK_MINUTES)
    /\ RouteLoginFail(c)
    /\ streak' = Kept(StreakAfter(TRUE, TRUE, FALSE, TRUE))
    /\ UNCHANGED <<admin_users, next_oid, now, ticks, issued, build, organizations>>

\* lines 118-148: the reset of the counter and of the lock, then the tokens
RouteLoginReset(c) ==
    LET user == CallOf(c).user
        tokens == {route_create_access_token(Str(user._id), now),
                   route_create_refresh_token(Str(user._id), now)}
    IN  /\ CallOf(c).pc = "reset"
        /\ users' = reset_login_attempts(users, user)
        /\ resp' = RouteLoginResponse(CallOf(c).req, 200, "", tokens, user)
        /\ Return(c)
        /\ streak' = Kept([StreakAfter(TRUE, FALSE, TRUE, TRUE) EXCEPT !.incs = 0])
        /\ UNCHANGED <<admin_users, next_oid, now, ticks, issued, build, organizations>>

\* ----------------------------------------------- POST /auth/register
\* lines 38-57: the look-up by lower-cased email, then the document
RegisterBegin(c, email, password) ==
    LET req == <<email, password>>
        existing_user == first_by_email(users, Lower(email))
        password_hash == password_handler_get_password_hash(password)
    IN  /\ CallOf(c) = Idle
        /\ UNCHANGED <<admin_users, next_oid, now, ticks, issued, build,
                       users, organizations, streak>>
        /\ IF ~IsNoUser(existing_user)
           THEN /\ resp' = Response("register", req, 400, "Email already registered",
                                    {}, None, NoUser)
                /\ UNCHANGED calls
           ELSE /\ Suspend(c, "insert", req,
                           [email |-> Lower(email), password_hash |-> password_hash])
                /\ resp' = Awaiting(c)

\* lines 59-64: insert_one; a coroutine object in the document cannot be
\* encoded (bson InvalidDocument) and nothing is stored
RegisterInsert(c) ==
    LET user_dict == CallOf(c).user
    IN  /\ CallOf(c).pc = "insert"
        /\ Return(c)
        /\ UNCHANGED <<admin_users, now, ticks, issued, build, organizations, streak>>
        /\ IF user_dict.password_hash.kind = "coroutine"
           THEN /\ resp' = Response("register", CallOf(c).req, 500,
                                    "Internal Server Error", {}, None, NoUser)
                /\ UNCHANGED <<users, next_oid>>
           ELSE /\ next_oid < MaxUsers
                /\ LET doc == UserDoc(ObjectId(next_oid + 1), user_dict.email,
                                      user_dict.password_hash.value)
                   IN  /\ users' = users \cup {doc}
                       /\ next_oid' = next_oid + 1
                       /\ resp' = Response("register", CallOf(c).req, 201, "",
                                           {}, None, doc)

\* ------------------------------------ api/v1/organization.py POST /create
collection_name_of(organization_name) ==
    "org_" \o ReplaceSpaces(Lower(organization_name))

\* line 64, master_db.create_collection: the collection is created, and the
\* call raises CollectionInvalid when a collection of that name exists
collection_exists(name) == name \in namespaces

\* The handler runs with the names it uses bound (datetime is used at line 57
\* and the module does not import it).  The document is inserted at line 61,
\* before the collection is created at line 64.
OrgCreate(organization_name, email, password) ==
    LET req == <<organization_name, email, password>>
        existing == \E o \in organizations :
                        PGet(o, "organization_name", None) = organization_name
        org_doc == [organization_name |-> organization_name,
                    collection_name |-> collection_name_of(organization_name),
                    admin_email |-> email,
                    hashed_password |-> get_password_hash(password)]
    IN  /\ UNCHANGED <<admin_users, next_oid, now, ticks, issued, build,
                       users, calls, streak>>
        /\ IF existing
           THEN /\ resp' = Response("org_create", req, 400,
                                    "Organization already exists", {}, None, NoUser)
                /\ UNCHANGED <<organizations, namespaces>>
           ELSE /\ organizations' = organizations \cup {org_doc}
                /\ IF collection_exists(org_doc.collection_name)
                   THEN /\ resp' = Response("org_create", req, 500,
                                            "Internal Server Error", {}, None, NoUser)
                        /\ UNCHANGED namespaces
                   ELSE /\ resp' = Response("org_create", req, 201, "", {}, None, NoUser)
                        /\ namespaces' = namespaces \cup {org_doc.collection_name}

\* ------------------------------------------- routes/users.py POST /api/users
\* The digest is put under "password_hash" and removed again by the pop of
\* the next line: the stored document carries no digest.
UsersCreateUser(email, organization_name) ==
    LET req == <<email, organization_name>>
        doc == [d \in {"_id", "email", "organization_name", "is_active",
                       "login_attempts", "account_locked_until"} |->
                  CASE d = "_id" -> ObjectId(next_oid + 1)
                    [] d = "email" -> email
                    [] d = "organization_name" -> organization_name
                    [] d = "is_active" -> TRUE
                    [] d = "login_attempts" -> 0
                    [] d = "account_locked_until" -> NoLock]
    IN  /\ UNCHANGED <<admin_users, now, ticks, issued, build, organizations,
                       calls, streak>>
        /\ IF \E d \in users : d.email = email
           THEN /\ resp' = Response("users_create_user", req, 400,
                                    "Email already registered", {}, None, NoUser)
                /\ UNCHANGED <<users, next_oid>>
           ELSE IF ~\E o \in organizations : o.organization_name = organization_name
           THEN /\ resp' = Response("users_create_user", req, 400,
                                    "Organization not found", {}, None, NoUser)
                /\ UNCHANGED <<users, next_oid>>
           ELSE /\ next_oid < MaxUsers
                /\ users' = users \cup {doc}
                /\ next_oid' = next_oid + 1
                /\ resp' = Response("users_create_user", req, 201, "", {}, None, doc)

\* ------------------------------------------------------------ the routes
InitRoute ==
    /\ InitStore
    /\ \E h \in PasswordHandlers : build = {h} \ SrcVariants

NextRoute ==
    \/ OrgCreate("acme", "a@x.io", "pw-good") /\ UNCHANGED <<tenants, side>>
    \/ UsersCreateUser("a@x.io", "acme") /\ UNCHANGED outer
    \/ RegisterBegin("c1", "a@x.io", "pw-good") /\ UNCHANGED outer
    \/ RegisterInsert("c1") /\ UNCHANGED outer
    \/ \E c \in Callers, pw \in Passwords :
          RouteLoginBegin(c, "a@x.io", pw) /\ UNCHANGED outer
    \/ \E c \in Callers : RouteLoginInc(c) /\ UNCHANGED outer
    \/ \E c \in Callers : RouteLoginLock(c) /\ UNCHANGED outer
    \/ \E c \in Callers : RouteLoginReset(c) /\ UNCHANGED outer
    \/ \E d \in LockSteps : Tick(d) /\ UNCHANGED ext

SpecRoute == InitRoute /\ [][NextRoute]_vars

\* ======================================================= login attempts
\* the principal the last login attempt found: the document of admin_users
\* for POST /auth/login, the document read at line 81 for POST /auth/token
LoginPrincipal ==
    IF resp.op = "login" THEN find_one_by_email(admin_users, resp.req[1])
    ELSE IF resp.op = "route_login" THEN resp.user
    ELSE NoUser

\* the password supplied is the principal's password
CorrectPassword ==
    /\ ~IsNoUser(LoginPrincipal)
    /\ resp.op = "login" =>
           verify_password(resp.req[2], LoginPrincipal.hashed_password)
    /\ resp.op = "route_login" =>
           verify_password(resp.req[2], PGet(LoginPrincipal, "password_hash", EmptyHash))

\* C11: after 5 failed login attempts in a row on an existing principal, an
\* attempt with the correct password made less than 15 minutes after the
\* last of them is rejected as account-locked and issues no tokens.
C11_Lockout ==
    (/\ resp.op \in LoginOps
     /\ CorrectPassword
     /\ Streak.n >= LOCK_AFTER_ATTEMPTS
     /\ now < Streak.at + LOCK_MINUTES)
    => (resp.status = 403 /\ resp.detail = LockedDetail /\ resp.tokens = {})

Principal == first_by_email(users, "a@x.io")

C14_SameFailure ==
    (/\ resp.op \in LoginOps
     /\ ~CorrectPassword)
    => (resp.status = 401 /\ resp.detail = "Incorrect email or password")

\* ========================================================= registration
\* C15: POST /auth/register takes no credentials, so its caller is never a
\* verified superadmin: every principal it creates has is_superadmin false
\* and is_active true.
C15_NoSelfElevation ==
    (resp.op = "create_user" /\ resp.status = 201)
    => (/\ resp.user \in admin_users
        /\ ~resp.user.is_superadmin
        /\ resp.user.is_active)

\* C16: create_user with an email that equals the email of a stored principal
\* when letter case is ignored fails with the already-exists error and leaves
\* admin_users as it was.
C16_NormalizedDuplicate ==
    [][(/\ resp'.op = "create_user"
        /\ \E d \in admin_users : Lower(d.email) = Lower(resp'.req[1]))
       => (/\ resp'.status = 400
           /\ resp'.detail = "User with this email already exists"
           /\ admin_users' = admin_users)]_vars

\* ------------------------------ AuthService.create_user, call by call
\* lines 32-46: find_one by email, then the document to insert
CreateUserFind(c, email, password, org_name, is_superadmin) ==
    LET req == <<email, password, org_name, is_superadmin>>
        existing_user == find_one_by_email(admin_users, email)
    IN  /\ CallOf(c) = Idle
        /\ UNCHANGED <<admin_users, next_oid, now, ticks, issued, build,
                       users, organizations, streak>>
        /\ IF ~IsNoUser(existing_user)
           THEN /\ resp' = Response("create_user", req, 400,
                                    "User with this email already exists",
                                    {}, None, NoUser)
                /\ UNCHANGED calls
           ELSE /\ Suspend(c, "create_insert", req,
                           [email |-> email,
                            org_name |-> org_name,
                            is_superadmin |-> is_superadmin,
                            hashed_password |-> get_password_hash(password),
                            is_active |-> TRUE])
                /\ resp' = Awaiting(c)

\* lines 48-53: insert_one, the store gives the document its _id
CreateUserInsert(c) ==
    LET user_dict == [k \in DOMAIN CallOf(c).user \cup {"_id"} |->
                        IF k = "_id" THEN ObjectId(next_oid + 1)
                        ELSE CallOf(c).user[k]]
    IN  /\ CallOf(c).pc = "create_insert"
        /\ next_oid < MaxUsers
        /\ admin_users' = admin_users \cup {user_dict}
        /\ next_oid' = next_oid + 1
        /\ resp' = Response("create_user", CallOf(c).req, 201, "", {}, None, user_dict)
        /\ Return(c)
        /\ UNCHANGED <<now, ticks, issued, build, users, organizations, streak>>

\* concurrent registrations on both stores
NextRegister ==
    \/ \E c \in Callers, e \in Emails :
          CreateUserFind(c, EmailStr(e), "pw-good", "A", FALSE) /\ UNCHANGED outer
    \/ \E c \in Callers : CreateUserInsert(c) /\ UNCHANGED outer
    \/ \E c \in Callers, e \in Emails :
          RegisterBegin(c, e, "pw-good") /\ UNCHANGED outer
    \/ \E c \in Callers : RegisterInsert(c) /\ UNCHANGED outer

SpecRegister == InitRoute /\ [][NextRegister]_vars

\* no two documents of the collection have the same email
EmailUnique(coll) == \A d1, d2 \in coll : d1.email = d2.email => d1 = d2

\* C17: after any interleaving of create_user and register calls no two
\* stored principals have the same email.
C17_EmailUnique == EmailUnique(admin_users) /\ EmailUnique(users)

\* ======================================= services/tenant_service.py
Domains     == {"acme", "globex"}
AdminEmails == {"a@x.io", "b@x.io"}

\* TenantCreate: the fields create_tenant reads
TenantCreate(domain, admin_email) ==
    [name |-> "Acme", domain |-> domain, admin_name |-> "Ann",
     admin_email |-> EmailStr(admin_email), admin_password |-> "pw-good"]
TenantInputs == {TenantCreate(dm, e) : dm \in Domains, e \in AdminEmails}

TenantExistsDetail(domain) == "Tenant with domain '" \o domain \o "' already exists"

\* the answer of POST /tenants/ (api/v1/endpoints/tenants.py create_tenant):
\* an HTTPException of the service as it is, any other exception as 500
TenantResponse(tenant_data, status, detail, user) ==
    Response("create_tenant", tenant_data, status, detail, {}, None, user)
TenantError(tenant_data, user) ==
    TenantResponse(tenant_data, 500, "An error occurred while creating the tenant", user)

\* the document _create_tenant_admin has AuthService.create_user insert
TenantAdmin(tenant_data, id) ==
    [_id |-> id, email |-> tenant_data.admin_email,
     full_name |-> tenant_data.admin_name, is_superadmin |-> FALSE,
     hashed_password |-> get_password_hash(tenant_data.admin_password),
     is_active |-> TRUE]

\* the document create_tenant inserts into tenants
TenantDoc(tenant_data, id, admin_id) ==
    [_id |-> id, name |-> tenant_data.name, domain |-> tenant_data.domain,
     admin_id |-> admin_id, is_active |-> TRUE]

\* create_tenant with the admin created before the look-up of the domain
CreateTenantAdminFirst(tenant_data, store_ok) ==
    LET existing_tenant == \E t \in tenants : t.domain = tenant_data.domain
        existing_user == find_one_by_email(admin_users, tenant_data.admin_email)
        admin_user == TenantAdmin(tenant_data, ObjectId(next_oid + 1))
    IN  /\ UNCHANGED <<now, ticks, issued, streak, route>>
        /\ IF BuildOf(build).models_user = "org_name"
           THEN /\ resp' = TenantError(tenant_data, NoUser)
                /\ UNCHANGED <<admin_users, tenants, next_oid>>
           ELSE IF ~IsNoUser(existing_user)
           THEN /\ resp' = TenantResponse(tenant_data, 400,
                                          "User with this email already exists", NoUser)
                /\ UNCHANGED <<admin_users, tenants, next_oid>>
           ELSE IF existing_tenant
           THEN /\ next_oid < MaxUsers
                /\ admin_users' = admin_users \cup {admin_user}
                /\ next_oid' = next_oid + 1
                /\ resp' = TenantResponse(tenant_data, 400,
                                          TenantExistsDetail(tenant_data.domain), NoUser)
                /\ UNCHANGED tenants
           ELSE IF ~store_ok
           THEN /\ next_oid < MaxUsers
                /\ admin_users' = admin_users \cup {admin_user}
                /\ next_oid' = next_oid + 1
                /\ resp' = TenantError(tenant_data, admin_user)
                /\ UNCHANGED tenants
           ELSE /\ next_oid + 1 < MaxUsers
                /\ admin_users' = admin_users \cup {admin_user}
                /\ tenants' = tenants \cup
                       {TenantDoc(tenant_data, ObjectId(next_oid + 2), admin_user._id)}
                /\ next_oid' = next_oid + 2
                /\ resp' = TenantResponse(tenant_data, 201, "", admin_user)

\* TenantService.create_tenant behind POST /tenants/.  store_ok tells whether
\* the store accepts tenants_collection.insert_one; the service catches
\* nothing and undoes nothing.
CreateTenant(tenant_data, store_ok) ==
    LET existing_tenant == \E t \in tenants : t.domain = tenant_data.domain
        existing_user == find_one_by_email(admin_users, tenant_data.admin_email)
        admin_user == TenantAdmin(tenant_data, ObjectId(next_oid + 1))
    IN  /\ UNCHANGED <<now, ticks, issued, streak, route>>
        /\ IF existing_tenant
           THEN /\ resp' = TenantResponse(tenant_data, 400,
                                          TenantExistsDetail(tenant_data.domain), NoUser)
                /\ UNCHANGED <<admin_users, tenants, next_oid>>
           ELSE IF BuildOf(build).models_user = "org_name"
           THEN /\ resp' = TenantError(tenant_data, NoUser)
                /\ UNCHANGED <<admin_users, tenants, next_oid>>
           ELSE IF ~IsNoUser(existing_user)
           THEN /\ resp' = TenantResponse(tenant_data, 400,
                                          "User with this email already exists", NoUser)
                /\ UNCHANGED <<admin_users, tenants, next_oid>>
           ELSE IF ~store_ok
           THEN /\ next_oid < MaxUsers
                /\ admin_users' = admin_users \cup {admin_user}
                /\ next_oid' = next_oid + 1
                /\ resp' = TenantError(tenant_data, admin_user)
                /\ UNCHANGED tenants
           ELSE /\ next_oid + 1 < MaxUsers
                /\ admin_users' = admin_users \cup {admin_user}
                /\ tenants' = tenants \cup
                       {TenantDoc(tenant_data, ObjectId(next_oid + 2), admin_user._id)}
                /\ next_oid' = next_oid + 2
                /\ resp' = TenantResponse(tenant_data, 201, "", admin_user)

\* ---------------------------------------- services/org_service.py
OrgNames == {"Acme", "acme"}

\* OrganizationService.get_organization is called and not defined in the
\* class: the organization of that name, found as update_organization and
\* delete_organization find it, by name_lower
get_organization(coll, organization_name) ==
    {o \in coll : PGet(o, "name_lower", None) = Lower(organization_name)}

\* OrganizationService.create_organization; the caller maps the ValueError to
\* 400 with the message as detail
CreateOrganization(organization_name, admin_email, admin_password) ==
    LET req == <<organization_name, admin_email, admin_password>>
        org_data == [name |-> organization_name,
                     name_lower |-> Lower(organization_name),
                     status |-> "active"]
    IN  /\ UNCHANGED <<admin_users, next_oid, now, ticks, issued, streak,
                       build, users, calls, tenants>>
        /\ IF get_organization(organizations, organization_name) /= {}
           THEN /\ resp' = Response("create_organization", req, 400,
                                    "Organization '" \o organization_name
                                        \o "' already exists", {}, None, NoUser)
                /\ UNCHANGED organizations
           ELSE /\ organizations' = organizations \cup {org_data}
                /\ resp' = Response("create_organization", req, 201, "",
                                    {}, None, NoUser)

\* ----------------------------------------------- tenants over time
InitTenants ==
    /\ InitStore
    /\ \E mu \in AdminUserModels : build = {mu} \ SrcVariants

\* a call of create_tenant while the store accepts every operation
Retry(tenant_data) == CreateTenant(tenant_data, TRUE) /\ UNCHANGED <<namespaces, side>>

NextTenants ==
    \/ \E td \in TenantInputs, store_ok \in BOOLEAN :
          CreateTenant(td, store_ok) /\ UNCHANGED <<namespaces, side>>
    \/ \E n \in OrgNames :
          CreateOrganization(n, "a@x.io", "pw-good") /\ UNCHANGED <<namespaces, side>>

SpecTenants == InitTenants /\ [][NextTenants]_vars

\* the callers keep retrying against a working store
SpecTenantsRetry == SpecTenants /\ \A td \in TenantInputs : WF_vars(Retry(td))

Orphans == {u \in admin_users : ~\E t \in tenants : t.admin_id = u._id}

FailedBetween(tenant_data) ==
    /\ resp.op = "create_tenant"
    /\ resp.req = tenant_data
    /\ resp.status = 500
    /\ ~IsNoUser(resp.user)

OrgApiNames == {"Acme", "acme", "Acme Inc"}

\* db/org_db.py OrgDatabase.__init__: the collection opened for org_name
OrgDatabase(org_name) == "org_" \o Lower(org_name)

\* OrgDatabase.insert_document: the store creates the collection with the
\* first document put in it
InsertDocument(org_name) ==
    /\ namespaces' = namespaces \cup {OrgDatabase(org_name)}
    /\ resp' = Response("insert_document", <<org_name>>, 200, "", {},
                        OrgDatabase(org_name), NoUser)
    /\ UNCHANGED <<admin_users, next_oid, now, ticks, issued, streak, route>>

\* the document find_one({"organization_name": name}) returns
find_organization(coll, organization_name) ==
    IF \E o \in coll : PGet(o, "organization_name", None) = organization_name
    THEN CHOOSE o \in coll : PGet(o, "organization_name", None) = organization_name
    ELSE NoUser

\* Collection.rename(new_name): the server refuses a source that does not
\* exist and a target that exists (the source itself included)
rename_refused(old_collection_name, new_collection_name) ==
    \/ old_collection_name \notin namespaces
    \/ new_collection_name \in namespaces

\* api/v1/organization.py PUT /update with new_org.organization_name set to a
\* name other than organization_name; current_email is the email of the
\* authenticated caller
OrgUpdate(organization_name, new_organization_name, current_email) ==
    LET req == <<organization_name, new_organization_name, current_email>>
        org == find_organization(organizations, organization_name)
        new_collection_name == collection_name_of(new_organization_name)
        updated == [org EXCEPT !.organization_name = new_organization_name,
                               !.collection_name = new_collection_name]
        Fail(status, detail) ==
            /\ resp' = Response("org_update", req, status, detail, {}, None, NoUser)
            /\ UNCHANGED <<organizations, namespaces>>
    IN  /\ new_organization_name /= organization_name
        /\ UNCHANGED <<admin_users, next_oid, now, ticks, issued, streak,
                       build, users, calls>>
        /\ IF IsNoUser(org) THEN Fail(404, "Organization not found")
           ELSE IF current_email /= org.admin_email
           THEN Fail(403, "Not authorized to update this organization")
           ELSE IF ~IsNoUser(find_organization(organizations, new_organization_name))
           THEN Fail(400, "Organization name already taken")
           ELSE IF rename_refused(org.collection_name, new_collection_name)
           THEN Fail(500, "Internal Server Error")
           ELSE /\ namespaces' = (namespaces \ {org.collection_name})
                                     \cup {new_collection_name}
                /\ organizations' = (organizations \ {org}) \cup {updated}
                /\ resp' = Response("org_update", req, 200, "", {}, None, NoUser)

NextOrgs ==
    \/ \E n \in OrgApiNames : OrgCreate(n, "a@x.io", "pw-good") /\ UNCHANGED <<tenants, side>>
    \/ \E n \in OrgApiNames, m \in OrgApiNames, e \in AdminEmails :
          OrgUpdate(n, m, e) /\ UNCHANGED <<tenants, side>>
    \/ \E n \in OrgApiNames : InsertDocument(n) /\ UNCHANGED <<tenants, side>>

SpecOrgs == Init /\ [][NextOrgs]_vars

C22_SameCollection ==
    resp.op = "insert_document"
    => \A o \in organizations :
           o.organization_name = resp.req[1] => resp.db = o.collection_name

\* ======================================================== deletion
\* the text of a str(ObjectId), as it appears in a path and in a database name
HexOf(tenant_id) == "oid" \o ToString(tenant_id.v)

\* tenant ids a caller can put in the path: str() of the ids the store gives
TenantIds == {Str(ObjectId(n)) : n \in 1..MaxUsers}

\* db/database_router.py get_tenant_db and a first write through it: the
\* store creates the database "tenant_<id>" with the first document
TenantDbInsert(tenant_id) ==
    /\ namespaces' = namespaces \cup {TenantDb(HexOf(tenant_id))}
    /\ resp' = Response("tenant_insert", <<tenant_id>>, 200, "", {},
                        TenantDb(HexOf(tenant_id)), NoUser)
    /\ UNCHANGED <<admin_users, next_oid, now, ticks, issued, streak, route, tenants>>

\* services/tenant_service.py delete_tenant: delete_one({"_id": tenant_id})
\* with the str of the path; the ids of the stored tenants are ObjectIds
delete_tenant(coll, tenant_id) == {t \in coll : t._id /= tenant_id}

\* DELETE /tenants/{tenant_id} (api/v1/endpoints/tenants.py); is_superadmin is
\* the flag of the authenticated caller
DeleteTenant(tenant_id, is_superadmin) ==
    LET req == <<tenant_id, is_superadmin>>
        success == delete_tenant(tenants, tenant_id) /= tenants
    IN  /\ UNCHANGED <<admin_users, next_oid, now, ticks, issued, streak, route,
                       namespaces>>
        /\ IF ~is_superadmin
           THEN /\ resp' = Response("delete_tenant", req, 403,
                       "The user doesn't have enough privileges", {}, None, NoUser)
                /\ UNCHANGED tenants
           ELSE /\ tenants' = delete_tenant(tenants, tenant_id)
                /\ resp' = IF success
                           THEN Response("delete_tenant", req, 204, "", {}, None, NoUser)
                           ELSE Response("delete_tenant", req, 404, "Tenant not found",
                                         {}, None, NoUser)

\* services/org_service.py delete_organization under DELETE /org/delete
\* (routes/org_routes.py): delete_one by name_lower; the ValueError of a name
\* not found is re-raised and the route does not catch it
DeleteOrganization(organization_name) ==
    LET req == <<organization_name>>
        found == get_organization(organizations, organization_name)
    IN  /\ UNCHANGED <<admin_users, next_oid, now, ticks, issued, streak,
                       build, users, calls, tenants, namespaces>>
        /\ IF found = {}
           THEN /\ resp' = Response("delete_organization", req, 500,
                                    "Internal Server Error", {}, None, NoUser)
                /\ UNCHANGED organizations
           ELSE /\ organizations' = organizations \ {CHOOSE o \in found : TRUE}
                /\ resp' = Response("delete_organization", req, 200, "",
                                    {}, None, NoUser)

NextDelete ==
    \/ \E e \in AdminEmails :
          CreateTenant(TenantCreate("acme", e), TRUE) /\ UNCHANGED <<namespaces, side>>
    \/ \E n \in OrgNames :
          CreateOrganization(n, "a@x.io", "pw-good") /\ UNCHANGED <<namespaces, side>>
    \/ \E n \in OrgNames : InsertDocument(n) /\ UNCHANGED <<tenants, side>>
    \/ \E id \in TenantIds : TenantDbInsert(id) /\ UNCHANGED side
    \/ \E id \in TenantIds, sa \in BOOLEAN : DeleteTenant(id, sa) /\ UNCHANGED side
    \/ \E n \in OrgNames : DeleteOrganization(n) /\ UNCHANGED side

SpecDelete == InitTenants /\ [][NextDelete]_vars

\* C23: after a successful delete neither the record nor the data namespace
\* of the organization or tenant remains.
C23_DeleteCascades ==
    /\ (resp.op = "delete_organization" /\ resp.status = 200)
       => /\ get_organization(organizations, resp.req[1]) = {}
          /\ OrgDatabase(resp.req[1]) \notin namespaces
    /\ (resp.op = "delete_tenant" /\ resp.status = 204)
       => /\ \A t \in tenants : Str(t._id) /= resp.req[1]
          /\ TenantDb(HexOf(resp.req[1])) \notin namespaces

\* ============================================= GET /tenants/{tenant_id}
\* TenantService.get_tenant_by_id: find_one({"_id": tenant_id}) with the str
\* of the path
get_tenant_by_id(coll, tenant_id) == find_one_by_id(coll, tenant_id)

\* api/v1/endpoints/tenants.py get_tenant.  current_user is the AdminUserInDB
\* get_current_user builds from the token; the model has no tenant_id field,
\* so current_user.tenant_id raises AttributeError whenever the first operand
\* of the "and" at line 42 is true.
GetTenant(token, tenant_id) ==
    LET req == <<token, tenant_id>>
        r == get_current_user(token, now)
        tenant == get_tenant_by_id(tenants, tenant_id)
        Answer(status, detail, body) ==
            resp' = Response("get_tenant", req, status, detail, {}, None, body)
    IN  /\ UNCHANGED <<admin_users, next_oid, now, ticks, issued, ext>>
        /\ IF ~r.ok THEN Answer(r.status, r.detail, NoUser)
           ELSE IF ~r.user.is_active THEN Answer(400, "Inactive user", NoUser)
           ELSE IF ~r.user.is_superadmin
           THEN Answer(500, "Internal Server Error", NoUser)
           ELSE IF IsNoUser(tenant) THEN Answer(404, "Tenant not found", NoUser)
           ELSE Answer(200, "", tenant)

\* tenant ids put into the claims of a token: the text of a tenant's id
TokenTenantIds == {HexOf(id) : id \in TenantIds}

NextGetTenant ==
    \/ \E e \in Emails, sa \in BOOLEAN :
          CreateUser(e, "pw-good", "A", sa) /\ UNCHANGED ext
    \/ \E e \in AdminEmails :
          CreateTenant(TenantCreate("acme", e), TRUE) /\ UNCHANGED <<namespaces, side>>
    \/ \E u \in admin_users, tn \in TokenTenantIds \cup {None} :
          CreateTokens(u, tn) /\ UNCHANGED ext
    \/ \E tk \in Presentable, id \in TenantIds : GetTenant(tk, id)

SpecGetTenant == InitTenants /\ [][NextGetTenant]_vars

\* the caller of the last get_tenant, as the token it presented verifies
CallerOk == get_current_user(resp.req[1], now).ok
CallerSuperadmin == get_current_user(resp.req[1], now).user.is_superadmin
CallerTenant == PGet(resp.req[1].payload, "tenant_id", None)
\* the tenant the last get_tenant named, when it is stored
NamedTenants == {t \in tenants : Str(t._id) = resp.req[2]}

\* C24: get_tenant returns tenant T to a superadmin for any stored T and to a
\* non-superadmin caller only when the caller's own tenant is T; a
\* non-superadmin caller asking for another tenant gets 403 and no tenant.
C24_GetTenantScoped ==
    (resp.op = "get_tenant" /\ CallerOk)
    => /\ (CallerSuperadmin /\ NamedTenants /= {})
          => (resp.status = 200 /\ resp.user \in NamedTenants)
       /\ (~CallerSuperadmin /\ CallerTenant = HexOf(resp.req[2]) /\ NamedTenants /= {})
          => (resp.status = 200 /\ resp.user \in NamedTenants)
       /\ (~CallerSuperadmin /\ CallerTenant /= HexOf(resp.req[2]))
          => (resp.status = 403 /\ IsNoUser(resp.user))

\* ======================================================== status classes
\* C25: a failure has the status of the contract's table: an invalid token
\* gives 401 and a duplicate email gives 409.
C25_StatusClasses ==
    /\ (resp.op = "get_current_user" /\ ~jwt_decode_ok(resp.req[1], SECRET_KEY, now))
       => resp.status = 401
    /\ (resp.op = "create_user" /\ IsNoUser(resp.user))
       => resp.status = 409

\* C26: every rejected refresh has the same response: the status and the
\* message of a refresh rejected for its signature.
C26_RefreshFailuresAlike ==
    (resp.op = "refresh" /\ resp.status = 401)
    => resp.detail = "Could not validate credentials"

\* ===================================================== store failures
\* The calls below are made while the store refuses every operation: the
\* first store call of the handler raises a pymongo error.

\* POST /auth/login: authenticate_user's find_one raises; neither the service
\* nor the handler catches it
LoginStoreDown(username, password) ==
    /\ resp' = Response("login_store_down", <<username, password>>, 500,
                        "Internal Server Error", {}, None, NoUser)
    /\ UNCHANGED <<admin_users, next_oid, now, ticks, issued>>

\* refresh_tokens reaches its find_one (line 100) when the token decodes, is
\* a refresh token and has a subject
reaches_store(refresh_token, t) ==
    /\ jwt_decode_ok(refresh_token, SECRET_KEY, t)
    /\ PGet(refresh_token.payload, "refresh", FALSE) = TRUE
    /\ PGet(refresh_token.payload, "sub", NoSub) /= NoSub

\* POST /auth/refresh-token: the pymongo error is no JWTError and no
\* HTTPException; the handler's "except Exception" answers 401
RefreshStoreDown(token) ==
    /\ reaches_store(token, now)
    /\ resp' = Response("refresh_store_down", <<token>>, 401,
                        "Could not validate refresh token", {}, None, NoUser)
    /\ UNCHANGED <<admin_users, next_oid, now, ticks, issued>>

\* POST /auth/register: create_user's find_one raises; the handler's
\* "except Exception" answers 500
RegisterStoreDown(email, password, org_name, is_superadmin) ==
    /\ resp' = Response("register_store_down",
                        <<email, password, org_name, is_superadmin>>, 500,
                        "An error occurred while creating the user", {}, None, NoUser)
    /\ UNCHANGED <<admin_users, next_oid, now, ticks, issued>>

StoreDownOps == {"login_store_down", "refresh_store_down", "register_store_down"}

NextStoreDown ==
    \/ SetUp /\ UNCHANGED ext
    \/ \E tk \in Presentable : RefreshTokens(tk) /\ UNCHANGED ext
    \/ \E e \in Emails, pw \in Passwords : LoginStoreDown(e, pw) /\ UNCHANGED ext
    \/ \E tk \in Presentable : RefreshStoreDown(tk) /\ UNCHANGED ext
    \/ \E e \in Emails : RegisterStoreDown(e, "pw-good", "A", FALSE) /\ UNCHANGED ext

SpecStoreDown == Init /\ [][NextStoreDown]_vars

\* C27: a store failure during login, refresh or registration reaches the
\* caller as store-unavailable (503), never as an authentication failure.
C27_StoreFailureSurfaced ==
    resp.op \in StoreDownOps => resp.status = 503

\* ============================================== passwords as bytes
\* A password is a sequence of Unicode code points.
BCRYPT_MAX_BYTES == 72
MaxOver == 1       \* how far beyond the limit of bcrypt the passwords reach

\* str.encode('utf-8') of one code point (up to U+FFFF)
Utf8OfChar(cp) ==
    IF cp < 128 THEN <<cp>>
    ELSE IF cp < 2048 THEN <<192 + (cp \div 64), 128 + (cp % 64)>>
    ELSE <<224 + (cp \div 4096), 128 + ((cp \div 64) % 64), 128 + (cp % 64)>>

\* str.encode('utf-8')
RECURSIVE Utf8(_)
Utf8(str) == IF str = <<>> THEN <<>> ELSE Utf8OfChar(Head(str)) \o Utf8(Tail(str))

\* bytes.decode('latin-1'): every byte is the code point of its value
Latin1(bytes) == bytes

\* bytes[:n]
Prefix(bytes, n) == SubSeq(bytes, 1, IF Len(bytes) < n THEN Len(bytes) ELSE n)

\* auth/password_handler.py truncate_password
truncate_password(password) == Latin1(Prefix(Utf8(password), BCRYPT_MAX_BYTES))

\* passlib bcrypt on a str secret: the secret is encoded as UTF-8 and bcrypt
\* uses its first 72 bytes; the digest verifies the secrets with those bytes
pwd_context_hash(secret) == [bcrypt |-> Prefix(Utf8(secret), BCRYPT_MAX_BYTES)]
pwd_context_verify(secret, hash) == pwd_context_hash(secret) = hash

\* auth/password_handler.py, the results of the awaited coroutines
handler_get_password_hash(password) == pwd_context_hash(truncate_password(password))
handler_verify_password_untruncated(plain_password, hashed_password) ==
    pwd_context_verify(plain_password, hashed_password)
handler_verify_password(plain_password, hashed_password) ==
    pwd_context_verify(truncate_password(plain_password), hashed_password)

\* core/security.py
security_get_password_hash(password) == pwd_context_hash(password)
security_verify_password(plain_password, hashed_password) ==
    pwd_context_verify(plain_password, hashed_password)

\* the passwords tried: one character repeated up to and beyond the limit,
\* and passwords whose 72nd byte falls inside a character
RECURSIVE Rep(_, _)
Rep(cp, n) == IF n = 0 THEN <<>> ELSE <<cp>> \o Rep(cp, n - 1)
PasswordChars == {97, 233, 8364}          \* "a", e-acute, the euro sign
LongPasswords ==
    {Rep(cp, (BCRYPT_MAX_BYTES \div Len(Utf8OfChar(cp))) + k) :
        cp \in PasswordChars, k \in -1..MaxOver}
    \cup {<<97>> \o Rep(233, 36), Rep(97, 71) \o <<8364>>, <<97, 233>>}

Value(value) == [value |-> value]

TruncatePassword(password) ==
    /\ resp' = Response("truncate_password", <<password>>, 200, "", {}, None,
                        Value(truncate_password(password)))
    /\ UNCHANGED <<admin_users, next_oid, now, ticks, issued, ext>>

\* verify_password(plain_password, get_password_hash(password)) of
\* auth/password_handler.py
HandlerVerify(plain_password, password) ==
    /\ resp' = Response("handler_verify", <<plain_password, password>>, 200, "", {},
                        None, Value(handler_verify_password(plain_password,
                                        handler_get_password_hash(password))))
    /\ UNCHANGED <<admin_users, next_oid, now, ticks, issued, ext>>

\* the same of core/security.py
SecurityVerify(plain_password, password) ==
    /\ resp' = Response("security_verify", <<plain_password, password>>, 200, "", {},
                        None, Value(security_verify_password(plain_password,
                                        security_get_password_hash(password))))
    /\ UNCHANGED <<admin_users, next_oid, now, ticks, issued, ext>>

NextPassword ==
    \/ \E pw \in LongPasswords : TruncatePassword(pw)
    \/ \E pw \in LongPasswords, p \in LongPasswords : HandlerVerify(pw, p)
    \/ \E pw \in LongPasswords, p \in LongPasswords : SecurityVerify(pw, p)

SpecPassword == Init /\ [][NextPassword]_vars

PasswordVerifyOps == {"handler_verify", "security_verify"}

C29_TruncateIdempotent ==
    (resp.op = "truncate_password" /\ Len(Utf8(resp.req[1])) > BCRYPT_MAX_BYTES)
    => truncate_password(resp.user.value) = resp.user.value

\* ================================================== wrong passwords
\* C30: a login attempt on an existing principal with a password that does
\* not verify against the stored hash is rejected: it succeeds on no login
\* path and issues no tokens.
C30_WrongPasswordRejected ==
    (/\ resp.op \in LoginOps
     /\ ~IsNoUser(LoginPrincipal)
     /\ ~CorrectPassword)
    => (resp.status /= 200 /\ resp.tokens = {})

get_current_active_user(token, t) ==
    LET r == get_current_user(token, t)
    IN  IF ~r.ok THEN r
        ELSE IF ~r.user.is_active THEN Reject(400, "Inactive user")
        ELSE r

GetCurrentActiveUser(token) ==
    LET r == get_current_active_user(token, now)
    IN  /\ resp' = Response("get_current_active_user", <<token>>, r.status, r.detail,
                            {}, None, r.user)
        /\ UNCHANGED <<admin_users, next_oid, now, ticks, issued>>

\* principals created, deactivated and deleted while their tokens are in use
NextActive ==
    \/ SetUp /\ UNCHANGED ext
    \/ \E u \in admin_users : DeactivateUser(u) /\ UNCHANGED ext
    \/ \E e \in Emails : DeleteUser(e) /\ UNCHANGED ext
    \/ \E tk \in Presentable : GetCurrentActiveUser(tk) /\ UNCHANGED ext

SpecActive == Init /\ [][NextActive]_vars

\* C33: the principal get_current_active_user returns is the stored, active
\* principal the token was issued to, with the email of the stored record; a
\* caller whose principal was deactivated or deleted is rejected.
C33_ActiveUserFromStore ==
    (resp.op = "get_current_active_user" /\ resp.status = 200)
    => (/\ PrincipalActive(Presented)
        /\ resp.user.email = PrincipalOf(Presented).email)

\* ===================================== who may change organizations, tenants
\* a request to a handler, with the body it carries
Sent(request, body) == [request |-> request, body |-> body]

\* POST /org/org/create, api/v1/organization.py create_organization as main.py
\* mounts it: the handler declares no dependency, the Authorization header of
\* the request is read by nothing
PostOrgCreate(auth, organization_name) ==
    LET req == Sent(MkRequest(<<"org", "org", "create">>, auth, None, None),
                    <<organization_name>>)
        existing == ~IsNoUser(find_organization(organizations, organization_name))
        org_doc == [organization_name |-> organization_name,
                    collection_name |-> collection_name_of(organization_name),
                    admin_email |-> "a@x.io",
                    hashed_password |-> get_password_hash("pw-good")]
    IN  /\ UNCHANGED <<admin_users, next_oid, now, ticks, issued, streak,
                       build, users, calls, tenants>>
        /\ IF existing
           THEN /\ resp' = Response("post_org_create", req, 400,
                                    "Organization already exists", {}, None, NoUser)
                /\ UNCHANGED <<organizations, namespaces>>
           ELSE /\ organizations' = organizations \cup {org_doc}
                /\ IF collection_exists(org_doc.collection_name)
                   THEN /\ resp' = Response("post_org_create", req, 500,
                                            "Internal Server Error", {}, None, NoUser)
                        /\ UNCHANGED namespaces
                   ELSE /\ resp' = Response("post_org_create", req, 201, "", {}, None, NoUser)
                        /\ namespaces' = namespaces \cup {org_doc.collection_name}

\* fastapi OAuth2PasswordBearer: the token of a "Bearer" Authorization header;
\* without one the dependency ends the request with 401
oauth2_scheme(request) ==
    IF HasBearer(request) THEN Accept(NoResult, NoUser)
    ELSE Reject(401, "Not authenticated")

\* POST /org/create of routes/org_routes.py: get_current_org_admin, then the
\* superadmin flag of the token, then the service; every exception of the
\* service becomes a 400
PostOrgRoutesCreate(auth, organization_name) ==
    LET request == MkRequest(<<"org", "create">>, auth, None, None)
        req == Sent(request, <<organization_name>>)
        scheme == oauth2_scheme(request)
        current_admin == get_current_org_admin(BearerOf(request), now)
        org_data == [name |-> organization_name,
                     name_lower |-> Lower(organization_name),
                     status |-> "active"]
        Fail(status, detail) ==
            /\ resp' = Response("post_org_routes_create", req, status, detail,
                                {}, None, NoUser)
            /\ UNCHANGED organizations
    IN  /\ UNCHANGED <<admin_users, next_oid, now, ticks, issued, streak,
                       build, users, calls, tenants, namespaces>>
        /\ IF ~scheme.ok THEN Fail(scheme.status, scheme.detail)
           ELSE IF ~current_admin.ok THEN Fail(current_admin.status, current_admin.detail)
           ELSE IF ~current_admin.user.is_superadmin
           THEN Fail(403, "Only superadmins can create organizations")
           ELSE IF get_organization(organizations, organization_name) /= {}
           THEN Fail(400, "Organization '" \o organization_name \o "' already exists")
           ELSE /\ organizations' = organizations \cup {org_data}
                /\ resp' = Response("post_org_routes_create", req, 201, "",
                                    {}, None, current_admin.user)

\* DELETE /org/delete of routes/org_routes.py: the handler declares no
\* dependency; the ValueError of a name not found is not caught
DeleteOrgDelete(auth, organization_name) ==
    LET req == Sent(MkRequest(<<"org", "delete">>, auth, None, None),
                    <<organization_name>>)
        found == get_organization(organizations, organization_name)
    IN  /\ UNCHANGED <<admin_users, next_oid, now, ticks, issued, streak,
                       build, users, calls, tenants, namespaces>>
        /\ IF found = {}
           THEN /\ resp' = Response("delete_org_delete", req, 500,
                                    "Internal Server Error", {}, None, NoUser)
                /\ UNCHANGED organizations
           ELSE /\ organizations' = organizations \ {CHOOSE o \in found : TRUE}
                /\ resp' = Response("delete_org_delete", req, 200, "",
                                    {}, None, NoUser)

\* requests to the organization endpoints with and without credentials
NextAnonymous ==
    \/ \E a \in AdminIds, sa \in BOOLEAN :
          GenerateOrgAdminToken(a, "acme", sa) /\ UNCHANGED ext
    \/ \E auth \in AuthHeaders, n \in OrgNames : PostOrgCreate(auth, n) /\ UNCHANGED side
    \/ \E auth \in AuthHeaders, n \in OrgNames : PostOrgRoutesCreate(auth, n) /\ UNCHANGED side
    \/ \E auth \in AuthHeaders, n \in OrgNames : DeleteOrgDelete(auth, n) /\ UNCHANGED side

SpecAnonymous == Init /\ [][NextAnonymous]_vars

\* the operations that create, rename or delete an organization
OrgMutations == {"post_org_create", "post_org_routes_create", "delete_org_delete"}

\* the request carries an unexpired token of the service that names a
\* superadmin or the admin of the organization
CallerPrivileged(request, organization_name) ==
    /\ HasBearer(request)
    /\ BearerOf(request).key \in {SECRET_KEY, JWT_SECRET}
    /\ BearerOf(request).payload.exp >= now
    /\ \/ PGet(BearerOf(request).payload, "is_superadmin", FALSE)
       \/ PGet(BearerOf(request).payload, "org", None) = Lower(organization_name)

\* C34: an organization is created or deleted only by a request whose caller
\* passed a privilege check: no request without credentials changes the
\* stored organizations.
C34_NoAnonymousMutation ==
    (resp.op \in OrgMutations /\ resp.status \in {200, 201})
    => CallerPrivileged(resp.req.request, resp.req.body[1])

\* ======================================================= unique names
\* OrganizationService.update_organization under PUT /org/update
\* (routes/org_routes.py): update_one by name_lower sets name and name_lower;
\* no look-up of the new name precedes it.  modified_count is 0 when no
\* document matches and when the matched document already has these values;
\* the ValueError is re-raised and the route does not catch it.
UpdateOrganization(organization_name, new_name) ==
    LET req == <<organization_name, new_name>>
        found == get_organization(organizations, organization_name)
        org == CHOOSE o \in found : TRUE
        updated == [org EXCEPT !.name = new_name, !.name_lower = Lower(new_name)]
    IN  /\ UNCHANGED <<admin_users, next_oid, now, ticks, issued, streak,
                       build, users, calls, tenants, namespaces>>
        /\ IF found = {} \/ updated = org
           THEN /\ resp' = Response("update_organization", req, 500,
                                    "Internal Server Error", {}, None, NoUser)
                /\ UNCHANGED organizations
           ELSE /\ organizations' = (organizations \ {org}) \cup {updated}
                /\ resp' = Response("update_organization", req, 200, "",
                                    {}, None, NoUser)

\* organizations created, renamed and deleted through OrganizationService
NextRename ==
    \/ \E n \in OrgApiNames, e \in AdminEmails :
          CreateOrganization(n, e, "pw-good") /\ UNCHANGED <<namespaces, side>>
    \/ \E n \in OrgApiNames, m \in OrgApiNames : UpdateOrganization(n, m) /\ UNCHANGED side
    \/ \E n \in OrgApiNames : DeleteOrganization(n) /\ UNCHANGED side

SpecRename == Init /\ [][NextRename]_vars

\* C35: no two stored organizations have the same name, and no two stored
\* tenants the same domain.
C35_NamesUnique ==
    /\ \A o1 \in organizations, o2 \in organizations :
           (/\ "name_lower" \in DOMAIN o1
            /\ "name_lower" \in DOMAIN o2
            /\ o1.name_lower = o2.name_lower) => o1 = o2
    /\ \A t1 \in tenants, t2 \in tenants : t1.domain = t2.domain => t1 = t2

\* ======================================================= utils/rate_limiter.py
Limit == 2          \* requests a limiter admits in one window
MaxRequests == 4    \* requests one client sends under one key in a behaviour

SecondsPerMinute == 60
\* time.time(), in seconds
time_time(t) == t * SecondsPerMinute
\* the clock advances by the window, and by more than the window
WindowSteps == {1, 2}

\* a module-level name of the process, with the value it has after import
\* until the process rebinds or fills it
Global(name, at_import) == IF name \in DOMAIN process THEN process[name] ELSE at_import
SetGlobal(name, value) ==
    process' = [n \in DOMAIN process \cup {name} |->
                  IF n = name THEN value ELSE process[n]]

\* The module reads settings.REDIS_URL, settings.TRUSTED_PROXIES and
\* settings.RATE_LIMIT_PER_MINUTE from "from config import settings"; it is
\* modelled with these names bound.  A deployment has no REDIS_URL, or has one
\* and init_redis fails and leaves self.redis None, or has one and a client.
Deployments == {{}, {"REDIS_URL"}, {"REDIS_URL", "redis"}}
\* is_rate_limited counts in memory (lines 82-84 and 89-91)
InMemory(deployment) == "redis" \notin deployment

RateLimiter(key_prefix, limit, window) ==
    [key_prefix |-> key_prefix, limit |-> limit, window |-> window]

\* get_rate_limit_key, with the client address get_client_ip gives
get_rate_limit_key(limiter, client_ip, key) == <<limiter.key_prefix, key, client_ip>>

\* a limiter that tests the counter before it counts the request
is_rate_limited_in_memory_test_first(store, limiter, rate_key, current_time) ==
    LET fresh == [count |-> 0, window_start |-> current_time]
        initialized == IF rate_key \in DOMAIN store THEN store
                       ELSE [k \in DOMAIN store \cup {rate_key} |->
                               IF k = rate_key THEN fresh ELSE store[k]]
        reset == IF current_time - initialized[rate_key].window_start > limiter.window
                 THEN [initialized EXCEPT ![rate_key] = fresh]
                 ELSE initialized
        counted == [reset EXCEPT ![rate_key].count = @ + 1]
    IN  [store |-> counted, limited |-> reset[rate_key].count > limiter.limit]

\* RateLimiter._is_rate_limited_in_memory on _rate_limit_store: the store
\* after the call and the value returned
is_rate_limited_in_memory(store, limiter, rate_key, current_time) ==
    LET fresh == [count |-> 0, window_start |-> current_time]
        initialized == IF rate_key \in DOMAIN store THEN store
                       ELSE [k \in DOMAIN store \cup {rate_key} |->
                               IF k = rate_key THEN fresh ELSE store[k]]
        reset == IF current_time - initialized[rate_key].window_start > limiter.window
                 THEN [initialized EXCEPT ![rate_key] = fresh]
                 ELSE initialized
        counted == [reset EXCEPT ![rate_key].count = @ + 1]
    IN  [store |-> counted, limited |-> counted[rate_key].count > limiter.limit]

\* INCR of a Redis key: a key that does not exist starts at 0 and gets no expiry
redis_incr(keys, key) ==
    [k \in DOMAIN keys \cup {key} |->
       IF k /= key THEN keys[k]
       ELSE IF key \in DOMAIN keys THEN [keys[key] EXCEPT !.value = @ + 1]
       ELSE [value |-> 1]]

\* RateLimiter.is_rate_limited with a Redis client (lines 93-108).
\* pipe.incr(rate_key).execute() returns the list of the replies of the
\* pipeline, here the one-element list [n].  "current == 1" compares a list
\* with an int and is false, so expire is never sent; "current > self.limit"
\* raises TypeError, which the except clause turns into False.
is_rate_limited_redis(keys, limiter, rate_key) ==
    LET incremented == redis_incr(keys, rate_key)
        current == <<incremented[rate_key].value>>
        first == FALSE                 \* [n] == 1
        outcome == Raised("TypeError") \* [n] > self.limit
    IN  [keys |-> incremented,
         limited |-> IF outcome.kind = "raise" THEN FALSE ELSE outcome.value]

\* RateLimiter.get_retry_after
get_retry_after(store, keys, deployment, limiter, rate_key, current_time) ==
    IF deployment = {}
    THEN IF rate_key \in DOMAIN store
         THEN LET elapsed == current_time - store[rate_key].window_start
              IN  IF limiter.window - elapsed > 0 THEN limiter.window - elapsed ELSE 0
         ELSE 0
    ELSE 0      \* no client, or the TTL -1 of a key without expiry

\* what a client has been answered under a key: one entry per request
Answered(rate_key) == IF rate_key \in DOMAIN observed THEN observed[rate_key] ELSE <<>>

\* a request to a handler under @rate_limit(key, limit=Limit, window=60)
RateLimit(key, client_ip) ==
    LET limiter == RateLimiter("rate_limit_" \o key, Limit, 60)
        rate_key == get_rate_limit_key(limiter, client_ip, key)
        store == Global("_rate_limit_store", <<>>)
        in_memory == InMemory(build)
        memory == is_rate_limited_in_memory(store, limiter, rate_key, time_time(now))
        server == is_rate_limited_redis(redis, limiter, rate_key)
        is_limited == IF in_memory THEN memory.limited ELSE server.limited
        store_after == IF in_memory THEN memory.store ELSE store
        retry_after == get_retry_after(store_after, redis, build, limiter,
                                       rate_key, time_time(now))
        status == IF is_limited THEN 429 ELSE 200
        entry == [at |-> time_time(now), status |-> status,
                  count |-> IF in_memory THEN memory.store[rate_key].count
                            ELSE server.keys[rate_key].value]
    IN  /\ Len(Answered(rate_key)) < MaxRequests
        /\ IF in_memory
           THEN SetGlobal("_rate_limit_store", memory.store) /\ UNCHANGED redis
           ELSE redis' = server.keys /\ UNCHANGED process
        /\ observed' = [k \in DOMAIN observed \cup {rate_key} |->
                          IF k = rate_key THEN Append(Answered(rate_key), entry)
                          ELSE observed[k]]
        /\ resp' = Response("rate_limit", <<key, client_ip, retry_after>>, status,
                            IF is_limited THEN "Too many requests" ELSE "",
                            {}, None, NoUser)
        /\ UNCHANGED <<admin_users, next_oid, now, ticks, issued, streak, route,
                       tenants, namespaces>>

ClientIps == {"10.0.0.1", "10.0.0.2"}

InitRate ==
    /\ InitStore
    /\ build \in Deployments

NextRate ==
    \/ \E ip \in ClientIps : RateLimit("login", ip)
    \/ \E d \in WindowSteps : Tick(d) /\ UNCHANGED ext

SpecRate == InitRate /\ [][NextRate]_vars

\* the start of the window request i of a client falls in, and the number of
\* the request within that window: a window starts with the first request and
\* with the first request made more than `window` seconds after its start
RECURSIVE WindowStart(_, _, _)
WindowStart(answers, window, i) ==
    IF i = 1 THEN answers[1].at
    ELSE LET start == WindowStart(answers, window, i - 1)
         IN  IF answers[i].at - start > window THEN answers[i].at ELSE start
RECURSIVE NumberInWindow(_, _, _)
NumberInWindow(answers, window, i) ==
    IF i = 1 THEN 1
    ELSE IF answers[i].at - WindowStart(answers, window, i - 1) > window THEN 1
    ELSE NumberInWindow(answers, window, i - 1) + 1

\* C36: counting in memory, the request numbered Limit + 1 in a window and
\* every later request in that window is answered with 429, so at most Limit
\* requests of one client under one key are admitted in one window.
C36_AtMostLimit ==
    InMemory(build) =>
        \A k \in DOMAIN observed : \A i \in 1..Len(observed[k]) :
            NumberInWindow(observed[k], 60, i) > Limit => observed[k][i].status = 429

\* a client was refused in memory after Limit admitted requests in the window
C36_Witness ==
    /\ InMemory(build)
    /\ resp.op = "rate_limit"
    /\ resp.status = 429
    /\ \E k \in DOMAIN observed :
          /\ k[3] = resp.req[2]
          /\ Len(observed[k]) > Limit
          /\ \A i \in 1..Limit : observed[k][i].status = 200


\* C37: once more than `window` seconds have passed since the start of a
\* client's window, the client's next request starts a new count at one and
\* is admitted, whether the limiter counts in memory or in Redis.
C37_WindowResets ==
    \A k \in DOMAIN observed : \A i \in 2..Len(observed[k]) :
        observed[k][i].at - WindowStart(observed[k], 60, i - 1) > 60
            => /\ observed[k][i].status = 200
               /\ observed[k][i].count = 1



\* ========================================================== db/redis_utils.py
REDIS_TTL == 300    \* config/settings.py, seconds
\* the clock advances within the life of a cached value, and beyond it
CacheSteps == {1, 6}

\* json.loads(json.dumps(data, default=str)) of a document: an ObjectId is
\* written as its str(), the text fields are read back as they were
json_round_trip(doc) == IF "_id" \in DOMAIN doc THEN [doc EXCEPT !._id = Str(@)] ELSE doc

\* the keys of the server that have not expired
Live(keys, current_time) ==
    {k \in DOMAIN keys :
        "expire_at" \notin DOMAIN keys[k] \/ keys[k].expire_at > current_time}

\* get_cached_data: the decoded value, as a set of at most one element.
\* Without a server get_redis returns None and the AttributeError is caught.
get_cached_data(keys, deployment, key, current_time) ==
    IF "redis" \in deployment /\ key \in Live(keys, current_time)
    THEN {keys[key].value} ELSE {}

\* set_cached_data
set_cached_data(keys, deployment, key, data, ttl, current_time) ==
    IF "redis" \notin deployment THEN keys
    ELSE [k \in DOMAIN keys \cup {key} |->
            IF k = key THEN [value |-> json_round_trip(data),
                             expire_at |-> current_time + ttl]
            ELSE keys[k]]

\* delete_cached_data of a key without wildcard
delete_cached_data(keys, deployment, key) ==
    IF "redis" \notin deployment THEN keys
    ELSE [k \in DOMAIN keys \ {key} |-> keys[k]]

\* OrganizationService._invalidate_org_cache: services/org_service.py does
\* not import delete_cached_data, the call raises NameError, and the except
\* clause logs it and goes on
invalidate_org_cache(keys, deployment, organization_name) ==
    LET outcome == Raised("NameError")
    IN  IF outcome.kind = "raise" THEN keys
        ELSE delete_cached_data(keys, deployment, "org:" \o organization_name)

\* the documents that a mutation which has returned replaced or removed
Replaced == PGet(observed, "replaced", {})
\* what the store held and what had been replaced when a read began
Begun(c) == PGet(PGet(observed, "begun", <<>>), c, [stored |-> {}, replaced |-> {}])
Observe(replaced, begun, answered) ==
    [replaced |-> replaced, begun |-> begun, answered |-> answered]
NoRead == [c \in {} |-> Begun(c)]

\* a mutation of the service, its cache invalidation, and the record of what
\* it replaced
Invalidating(names) ==
    /\ redis' = IF organizations' = organizations THEN redis
                ELSE LET first == invalidate_org_cache(redis, build, names[1])
                     IN  IF Len(names) = 1 THEN first
                         ELSE invalidate_org_cache(first, build, names[2])
    /\ observed' = Observe(Replaced \cup {json_round_trip(o) :
                                             o \in organizations \ organizations'},
                           PGet(observed, "begun", NoRead),
                           PGet(observed, "answered", <<>>))
    /\ UNCHANGED process

\* cache_org_data(ttl)(get_organization), lines 120-133: the look-up in the
\* cache and, on a miss, the call of the wrapped function
CachedRead(c, org_name) ==
    LET req == <<org_name>>
        cache_key == "org:" \o org_name
        cached_data == get_cached_data(redis, build, cache_key, time_time(now))
        found == get_organization(organizations, org_name)
        snapshot == [stored |-> {json_round_trip(o) : o \in organizations},
                     replaced |-> Replaced]
        begun == PGet(observed, "begun", NoRead)
        answer(data) == [result |-> data, stored |-> snapshot.stored,
                         replaced |-> snapshot.replaced]
    IN  /\ CallOf(c) = Idle
        /\ UNCHANGED <<admin_users, next_oid, now, ticks, issued, streak, build,
                       users, organizations, tenants, namespaces, process, redis>>
        /\ IF cached_data /= {}
           THEN LET data == CHOOSE d \in cached_data : TRUE
                IN  /\ resp' = Response("cache_org_data", req, 200, "", {}, data, NoUser)
                    /\ observed' = Observe(Replaced, begun, answer(data))
                    /\ UNCHANGED calls
           ELSE IF found = {}
           THEN /\ resp' = Response("cache_org_data", req, 404, "", {}, None, NoUser)
                /\ UNCHANGED <<calls, observed>>
           ELSE /\ Suspend(c, "set_cached_data", req, CHOOSE o \in found : TRUE)
                /\ observed' = Observe(Replaced,
                                       [d \in DOMAIN begun \cup {c} |->
                                          IF d = c THEN snapshot ELSE begun[d]],
                                       PGet(observed, "answered", <<>>))
                /\ resp' = Awaiting(c)

\* lines 137-141: the result is cached and returned
CachedReadStore(c) ==
    LET call == CallOf(c)
        result == call.user
        begun == PGet(observed, "begun", NoRead)
    IN  /\ call.pc = "set_cached_data"
        /\ redis' = set_cached_data(redis, build, "org:" \o call.req[1], result,
                                    REDIS_TTL, time_time(now))
        /\ Return(c)
        /\ resp' = Response("cache_org_data", call.req, 200, "", {}, result, NoUser)
        /\ observed' = Observe(Replaced, [d \in DOMAIN begun \ {c} |-> begun[d]],
                               [result |-> json_round_trip(result),
                                stored |-> Begun(c).stored,
                                replaced |-> Begun(c).replaced])
        /\ UNCHANGED <<admin_users, next_oid, now, ticks, issued, streak, build,
                       users, organizations, tenants, namespaces, process>>

InitCache ==
    /\ InitStore
    /\ build \in {{"REDIS_URL"}, {"REDIS_URL", "redis"}}

NextCache ==
    \/ \E n \in OrgNames :
          CreateOrganization(n, "a@x.io", "pw-good") /\ UNCHANGED <<namespaces, side>>
    \/ \E n \in OrgNames, m \in OrgNames :
          UpdateOrganization(n, m) /\ Invalidating(<<n, m>>)
    \/ \E n \in OrgNames : DeleteOrganization(n) /\ Invalidating(<<n>>)
    \/ \E n \in OrgNames : CachedRead("c1", n)
    \/ CachedReadStore("c1")
    \/ \E d \in CacheSteps : Tick(d) /\ UNCHANGED ext

SpecCache == InitCache /\ [][NextCache]_vars

\* C38: a cached read of an organization does not return a document that a
\* returned update_organization or delete_organization had replaced before
\* the read began, unless that document was stored again when the read began.
C38_NoStaleRead ==
    "answered" \in DOMAIN observed =>
        LET read == observed.answered
        IN  (read /= <<>> /\ read.result \in read.replaced) => read.result \in read.stored


\* ================================== routes/auth_routes.py, password reset
MaxResets == 2      \* reset tokens issued in one behaviour
RESET_TOKEN_MINUTES == 60
\* the clock advances within the life of a reset token, and to its end
ResetSteps == {RESET_TOKEN_MINUTES - 1, RESET_TOKEN_MINUTES}

\* secrets.token_urlsafe(32): a value no earlier call returned
ResetToken(n) == [type |-> "reset_token", n |-> n]
ResetTokens == {ResetToken(n) : n \in 0..MaxResets}
ResetTokensIssued == issued \cap ResetTokens

\* update_one({"_id": id}, {"$set": fields, "$unset": names}) on db.users
update_one_by_id(coll, id, fields, names) ==
    {IF d._id /= id THEN d
     ELSE [k \in (DOMAIN d \cup DOMAIN fields) \ names |->
             IF k \in DOMAIN fields THEN fields[k] ELSE d[k]] : d \in coll}

\* the reset tokens the handler has given out, in order, and the changes of
\* a password made with a reset token, in order
ResetRequests == PGet(observed, "requests", <<>>)
ResetChanges == PGet(observed, "changes", <<>>)

\* POST /auth/password-reset-request.  The $set of line 222 applies to the
\* document as it is when the update runs.
RequestPasswordReset(email) ==
    LET req == <<email>>
        user == first_by_email(users, Lower(email))
        reset_token == ResetToken(Len(ResetRequests) + 1)
        reset_token_expires == now + RESET_TOKEN_MINUTES
    IN  /\ resp' = Response("request_password_reset", req, 200,
                            "If your email is registered, you will receive a password reset link",
                            {}, None, NoUser)
        /\ UNCHANGED <<admin_users, next_oid, now, ticks, streak, build,
                       organizations, calls, tenants, namespaces, process, redis>>
        /\ IF IsNoUser(user)
           THEN UNCHANGED <<users, issued, observed>>
           ELSE /\ Len(ResetRequests) < MaxResets
                /\ users' = update_one_by_id(users, user._id,
                                [reset_token |-> reset_token,
                                 reset_token_expires |-> reset_token_expires], {})
                /\ issued' = issued \cup {reset_token}
                /\ observed' = [requests |-> Append(ResetRequests,
                                                [token |-> reset_token,
                                                 user |-> user._id, at |-> now]),
                                changes |-> ResetChanges]

\* find_one({"reset_token": token, "reset_token_expires": {"$gt": utcnow()}})
find_one_by_reset_token(coll, token, t) ==
    LET matches == {d \in coll : /\ "reset_token" \in DOMAIN d
                                 /\ d.reset_token = token
                                 /\ d.reset_token_expires > t}
    IN  IF matches = {} THEN NoUser
        ELSE CHOOSE d \in matches : \A e \in matches : d._id.v <= e._id.v

\* POST /auth/password-reset, lines 262-275: the look-up of the token and the
\* call of get_password_hash, which the handler does not await
ResetPasswordFind(c, token, new_password) ==
    LET req == <<token, new_password>>
        user == find_one_by_reset_token(users, token, now)
        password_hash == password_handler_get_password_hash(new_password)
    IN  /\ CallOf(c) = Idle
        /\ UNCHANGED <<admin_users, next_oid, now, ticks, issued, streak, build,
                       users, organizations, tenants, namespaces, side>>
        /\ IF IsNoUser(user)
           THEN /\ resp' = Response("reset_password", req, 400,
                                    "Invalid or expired reset token", {}, None, NoUser)
                /\ UNCHANGED calls
           ELSE /\ Suspend(c, "update_one", req,
                           [_id |-> user._id, password_hash |-> password_hash])
                /\ resp' = Awaiting(c)

\* lines 276-284: the update by _id.  A coroutine object under
\* "password_hash" cannot be encoded (bson InvalidDocument) and nothing is written.
ResetPasswordUpdate(c) ==
    LET call == CallOf(c)
        held == call.user
    IN  /\ call.pc = "update_one"
        /\ Return(c)
        /\ UNCHANGED <<admin_users, next_oid, now, ticks, issued, streak, build,
                       organizations, tenants, namespaces, process, redis>>
        /\ IF held.password_hash.kind = "coroutine"
           THEN /\ resp' = Response("reset_password", call.req, 500,
                                    "Internal Server Error", {}, None, NoUser)
                /\ UNCHANGED <<users, observed>>
           ELSE /\ users' = update_one_by_id(users, held._id,
                                [password_hash |-> held.password_hash.value],
                                {"reset_token", "reset_token_expires"})
                /\ observed' = [requests |-> ResetRequests,
                                changes |-> Append(ResetChanges,
                                               [token |-> call.req[1], at |-> now,
                                                requests |-> Len(ResetRequests)])]
                /\ resp' = Response("reset_password", call.req, 200,
                                    "Password updated successfully", {}, None, NoUser)

NextReset ==
    \/ OrgCreate("acme", "a@x.io", "pw-good") /\ UNCHANGED <<tenants, side>>
    \/ UsersCreateUser("a@x.io", "acme") /\ UNCHANGED outer
    \/ RegisterBegin("c1", "a@x.io", "pw-good") /\ UNCHANGED outer
    \/ RegisterInsert("c1") /\ UNCHANGED outer
    \/ RequestPasswordReset("a@x.io")
    \/ \E c \in Callers, tk \in ResetTokensIssued \cup {ResetToken(0)}, pw \in Passwords :
          ResetPasswordFind(c, tk, pw)
    \/ \E c \in Callers : ResetPasswordUpdate(c)
    \/ \E d \in ResetSteps : Tick(d) /\ UNCHANGED ext

SpecReset == InitRoute /\ [][NextReset]_vars

\* the place of a token among the tokens given out
RequestOf(token) == CHOOSE i \in 1..Len(ResetRequests) : ResetRequests[i].token = token

NoRouter == [class |-> "NoneType"]                 \* the value None of db_router
DatabaseRouter(master_db) == [class |-> "DatabaseRouter", master_db |-> master_db]

\* Module globals.  db/database_router.py binds db_router to None (line 46);
\* "from db.database_router import db_router" (main.py line 10) binds the name
\* db_router of main to the same value.  They are two names: an assignment to
\* one does not change the other.
MainDbRouter == Global("main.db_router", NoRouter)
DatabaseRouterDbRouter == Global("db.database_router.db_router", NoRouter)
Serving == Global("lifespan", "not started") = "started"

\* main.py lifespan up to the yield: "global db_router" names the global of
\* main, and the assignment rebinds that one
Lifespan ==
    /\ Global("lifespan", "not started") = "not started"
    /\ process' = [n \in DOMAIN process \cup {"main.db_router", "lifespan"} |->
                     IF n = "main.db_router" THEN DatabaseRouter(MasterDb)
                     ELSE IF n = "lifespan" THEN "started"
                     ELSE process[n]]
    /\ observed' = [built |-> DatabaseRouter(MasterDb)]
    /\ resp' = Response("lifespan", <<"startup">>, 0, "", {}, None, NoUser)
    /\ UNCHANGED <<admin_users, next_oid, now, ticks, issued, streak, route,
                   tenants, namespaces, redis>>

\* main.py lifespan after the yield
LifespanShutdown ==
    /\ Serving
    /\ SetGlobal("lifespan", "stopped")
    /\ resp' = Response("lifespan", <<"shutdown">>, 0, "", {}, None, NoUser)
    /\ UNCHANGED <<admin_users, next_oid, now, ticks, issued, streak, route,
                   tenants, namespaces, redis, observed>>

\* db/database_router.py get_db_router reads the global of its own module
get_db_router(router) ==
    IF router = NoRouter THEN Raised("Database router not initialized")
    ELSE Returned(router)

\* a request, while the application serves, to a handler that depends on
\* get_db; the RuntimeError leaves the application as 500
GetDb(request) ==
    LET state == tenant_middleware(request, now)
        router == get_db_router(DatabaseRouterDbRouter)
    IN  /\ Serving
        /\ resp' = IF router.kind = "raise"
                   THEN Response("get_db", request, 500, router.value, {}, NoDb, NoUser)
                   ELSE Response("get_db", request, 200, "", {},
                                 get_current_db(state, request), NoUser)
        /\ UNCHANGED <<admin_users, next_oid, now, ticks, issued, streak, route,
                       tenants, namespaces, side>>

NextStartup ==
    \/ SetUp /\ UNCHANGED ext
    \/ Lifespan
    \/ LifespanShutdown
    \/ \E a \in AuthHeaders, pt \in Tenants \cup {None}, ht \in Tenants \cup {None} :
          GetDb(MkRequest(<<"org", "tenant", "resource">>, a, pt, ht))

SpecStartup == Init /\ [][NextStartup]_vars

\* C40: once the startup of the application has completed, get_db_router
\* returns the router built at startup, and no call of get_db raises
\* "Database router not initialized".
C40_RouterAfterStartup ==
    Serving =>
        /\ LET router == get_db_router(DatabaseRouterDbRouter)
           IN  router.kind = "value" /\ router.value = observed.built
        /\ resp.op = "get_db" => resp.detail /= "Database router not initialized"
====
